---------------------------- MODULE Spec2Model ----------------------------
(***************************************************************************)
(* A model of the ingestion and retrieval core of the RAG service:         *)
(*   - TextChunker.chunk, _create_chunks  (app/modules/chunking.py)        *)
(*   - QueryExpander.generate_variations  (app/modules/query_expansion.py) *)
(*   - VectorStore add_chunks / delete_by_document / query                 *)
(*                                        (app/modules/vector_store.py)    *)
(*   - Retriever.retrieve, _parse_results, _hybrid_rerank                  *)
(*                                        (app/modules/retrieval.py)       *)
(*                                                                         *)
(* Text is modelled as a sequence of one-character strings, so that        *)
(* strip(), lower(), the bullet regular expression and the collection-name *)
(* sanitiser are computed character by character.  Scores are exact        *)
(* rationals n/d in lowest terms.                                          *)
(***************************************************************************)
EXTENDS Integers, Sequences, FiniteSets, TLC

VARIABLES
    hashSeed,         \* the interpreter's string-hash seed (fixed per process)
    expansion_count,  \* QueryExpander.expansion_count
    epc,              \* position of the generate_variations call
    equery,           \* its argument
    llmOut,           \* what llm_generator.generate produced in this call
    llmCalls,         \* number of llm_generator.generate invocations in this call
    eresult,          \* the list generate_variations returned
    store,            \* ChromaDB: collection name -> the entries it holds
    sops,             \* number of vector-store operations performed
    slast,            \* the last vector-store operation and what it returned
    rpc,              \* position of the retrieve call
    rcall,            \* the retrieve call: arguments, intermediate lists, outcome
    rfirst,           \* an earlier retrieve call kept for comparison
    chunk_size,       \* TextChunker.chunk_size
    chunk_overlap,    \* TextChunker.chunk_overlap
    cpc,              \* position of the chunk call
    ctext,            \* its text argument
    sentences,        \* all_sentences, paragraph markers included
    sentence_idx,     \* _create_chunks: index of the next sentence (from 0)
    current_chunk_sentences,
    current_token_count,
    carried,          \* how many leading members of current_chunk_sentences are overlap
    chunk_no,         \* _create_chunks: chunk_index, the index of the next chunk
    chunk_list,       \* _create_chunks: chunks, the chunks emitted so far
    cconfig,          \* the arguments the TextChunker was constructed with
    cerror,           \* the exception the chunk call raised, if any
    document,         \* the Document row of the ingested document
    disk,             \* the upload directory: file path -> the file there, if any
    tasks,            \* the process_document background tasks
    upd,              \* the update_document request
    del               \* the delete_document request

evars == <<hashSeed, expansion_count, epc, equery, llmOut, llmCalls, eresult>>

svars == <<store, sops, slast>>

rvars == <<rpc, rcall, rfirst>>

cvars == <<chunk_size, chunk_overlap, cpc, ctext, sentences, sentence_idx,
           current_chunk_sentences, current_token_count, carried, chunk_no, chunk_list,
           cconfig, cerror>>

ivars == <<document, disk, tasks, upd, del>>

vars == <<hashSeed, expansion_count, epc, equery, llmOut, llmCalls, eresult,
          store, sops, slast, rpc, rcall, rfirst,
          chunk_size, chunk_overlap, cpc, ctext, sentences, sentence_idx,
          current_chunk_sentences, current_token_count, carried, chunk_no, chunk_list,
          cconfig, cerror, document, disk, tasks, upd, del>>

-----------------------------------------------------------------------------
(* Bounds *)

\* number of distinct interpreter hash seeds explored
NumSeeds == 2
\* largest expansion_count a QueryExpander is constructed with
MaxExpansionCount == 2
\* largest number of lines in a language-model reply
MaxLines == 3
\* largest number of chunks one add_chunks call stores
MaxChunks == 2
\* largest document_version
MaxVersion == 2
\* number of vector-store operations explored in SpecStore
MaxStoreOps == 3
\* largest top_k argument of retrieve and of VectorStore.query
MaxTopK == 2
\* largest number of sentences in a text handed to chunk
MaxSentences == 4
\* largest chunk_size a TextChunker is constructed with
MaxChunkSize == 3
\* largest chunk_overlap a TextChunker is constructed with
MaxChunkOverlap == 2

-----------------------------------------------------------------------------
(* Text *)

Alphabet == <<"\n", " ", "a", "b", "c", "d", "e", "A", "D", "-", "*", "1", ".", "\"",
              "0", "2", "3", "_", "v">>

CharTable == [c \in {Alphabet[i] : i \in 1..Len(Alphabet)} |->
                CHOOSE i \in 1..Len(Alphabet) : Alphabet[i] = c]

\* the position of a character in the alphabet
CharCode(c) == CharTable[c]

\* str.isspace for one character
IsSpace(c) == c \in {" ", "\n"}

\* str.lower for one character
LowerChar(c) == CASE c = "A" -> "a"
                  [] c = "D" -> "d"
                  [] OTHER -> c

RECURSIVE Lower(_)
\* str.lower
Lower(s) == IF s = <<>> THEN <<>> ELSE <<LowerChar(Head(s))>> \o Lower(Tail(s))

RECURSIVE LStrip(_)
LStrip(s) == IF s # <<>> /\ IsSpace(Head(s)) THEN LStrip(Tail(s)) ELSE s

RECURSIVE RStrip(_)
RStrip(s) == IF s # <<>> /\ IsSpace(s[Len(s)])
             THEN RStrip(SubSeq(s, 1, Len(s) - 1))
             ELSE s

\* str.strip
Strip(s) == RStrip(LStrip(s))

\* re.sub(r'^["\']|["\']$', '', s): one quote off the front, one off the end
StripQuotes(s) ==
    LET s1 == IF s # <<>> /\ Head(s) = "\"" THEN Tail(s) ELSE s
    IN  IF s1 # <<>> /\ s1[Len(s1)] = "\"" THEN SubSeq(s1, 1, Len(s1) - 1) ELSE s1

\* the character class [-*•\d\.] of the bullet pattern
IsBullet(c) == c \in {"-", "*", "1", "."}

RECURSIVE SpaceRun(_, _)
\* how many whitespace characters (\s, newlines included) s holds from position p on
SpaceRun(s, p) == IF p <= Len(s) /\ IsSpace(s[p]) THEN 1 + SpaceRun(s, p + 1) ELSE 0

RECURSIVE BulletRun(_, _)
\* how many characters of the class [-*•\d\.] s holds from position p on
BulletRun(s, p) == IF p <= Len(s) /\ IsBullet(s[p]) THEN 1 + BulletRun(s, p + 1) ELSE 0

RECURSIVE LineEnd(_, _)
\* the last position of the line that position p lies on ('.' and '$' stop at "\n")
LineEnd(s, p) == IF p < Len(s) /\ s[p + 1] # "\n" THEN LineEnd(s, p + 1) ELSE p

(***************************************************************************)
(* The pattern  ^\s*[-*•\d\.]+\s*(.+)$  tried at line start p of s: the    *)
(* set holding [cap, next] (the captured group and the position after the  *)
(* match), or the empty set.  The quantifiers are greedy; when nothing is  *)
(* left for (.+) they give characters back, the second \s* first, then the *)
(* bullet run, and '.' never takes a newline.                              *)
(***************************************************************************)
MatchAt(s, p) ==
    LET p1 == p + SpaceRun(s, p)
        b  == BulletRun(s, p1)
        p2 == p1 + b
        p3 == p2 + SpaceRun(s, p2)
        back == {q \in (p1 + 1)..Len(s) : s[q] # "\n"}
        from == IF p3 <= Len(s) THEN {p3}
                ELSE IF back # {} THEN {CHOOSE q \in back : \A r \in back : r <= q}
                ELSE {}
    IN  IF b = 0 THEN {}
        ELSE {[cap |-> SubSeq(s, q, LineEnd(s, q)), next |-> LineEnd(s, q) + 1] : q \in from}

RECURSIVE FindAllFrom(_, _)
FindAllFrom(s, p) ==
    IF p > Len(s) THEN <<>>
    ELSE LET m == IF p = 1 \/ s[p - 1] = "\n" THEN MatchAt(s, p) ELSE {}
         IN  IF m = {} THEN FindAllFrom(s, p + 1)
             ELSE LET r == CHOOSE x \in m : TRUE
                  IN  <<r.cap>> \o FindAllFrom(s, r.next)

\* re.findall(r'^\s*[-*•\d\.]+\s*(.+)$', content, re.MULTILINE)
FindAll(content) == FindAllFrom(content, 1)

RECURSIVE JoinLines(_)
\* "\n".join(lines)
JoinLines(lines) ==
    IF lines = <<>> THEN <<>>
    ELSE IF Len(lines) = 1 THEN lines[1]
    ELSE lines[1] \o <<"\n">> \o JoinLines(Tail(lines))

-----------------------------------------------------------------------------
(* Iteration order of a Python set of str *)

RECURSIVE StrHash(_, _)
(***************************************************************************)
(* hash(s) under the interpreter's hash seed, reduced to the slot of an    *)
(* eight-slot set table.  The seed is drawn when the process starts        *)
(* (string hashing is randomised per process), so the slot of a string is  *)
(* fixed within a process and differs between processes.                   *)
(***************************************************************************)
StrHash(s, h) == IF s = <<>> THEN h % 8
                 ELSE StrHash(Tail(s), (h * 3 + CharCode(Head(s))) % 8)

RECURSIVE LexLess(_, _)
LexLess(a, b) ==
    IF a = <<>> THEN b # <<>>
    ELSE IF b = <<>> THEN FALSE
    ELSE IF Head(a) = Head(b) THEN LexLess(Tail(a), Tail(b))
    ELSE CharCode(Head(a)) < CharCode(Head(b))

\* the members of S, each with its table slot
Slotted(S, seed) == {[slot |-> StrHash(x, seed), str |-> x] : x \in S}

SlotBefore(a, b) ==
    \/ a = b
    \/ a.slot < b.slot
    \/ a.slot = b.slot /\ LexLess(a.str, b.str)

RECURSIVE TableOrder(_)
\* iteration over the table: the strings in slot order
TableOrder(T) ==
    IF T = {} THEN <<>>
    ELSE LET m == CHOOSE x \in T : \A y \in T : SlotBefore(x, y)
         IN  <<m.str>> \o TableOrder(T \ {m})

\* list(S) for a set S of str: the members in table-slot order
SetOrder(S, seed) == TableOrder(Slotted(S, seed))

Take(seq, n) == SubSeq(seq, 1, IF n < Len(seq) THEN n ELSE Len(seq))

Elems(seq) == {seq[i] : i \in 1..Len(seq)}

-----------------------------------------------------------------------------
(* QueryExpander.generate_variations *)

\* query.strip().lower()
Normalize(query) == Lower(Strip(query))

\* a variant of the guard that measures the untrimmed query
IsTrivialUntrimmed(query) == query = <<>> \/ Len(query) < 3

\* the guard  not query or len(query.strip()) < 3
IsTrivial(query) == query = <<>> \/ Len(Strip(query)) < 3

\* return [query] if query else []
TrivialResult(query) == IF query # <<>> THEN <<query>> ELSE <<>>

\* clean_v: v.strip().lower() with one wrapping quote removed from each end
CleanVariation(v) == StripQuotes(Lower(Strip(v)))

\* the set unique_queries built from the reply's text
UniqueQueries(query, content) ==
    {Normalize(query)} \cup
    {c \in {CleanVariation(v) : v \in Elems(FindAll(content))} :
        c # <<>> /\ c # Normalize(query)}

\* result = list(unique_queries); return result[:self.expansion_count + 1]
ExpandOk(query, content, seed, count) ==
    Take(SetOrder(UniqueQueries(query, content), seed), count + 1)

\* a variant of the handler that returns no phrasing at all
ExpandExceptEmpty(query) == <<>>

\* except Exception: return [query]
ExpandExcept(query) == <<query>>

\* what the try block returns for one outcome of llm_generator.generate
ExpandTry(query, out, seed, count) ==
    IF out.kind = "text" THEN ExpandOk(query, out.content, seed, count)
    ELSE ExpandExcept(query)

(* Inputs *)

QuerySet ==
    { <<>>,
      <<"a", "b">>,
      <<" ", "a", "d">>,
      <<"a", "b", "c">>,
      <<"A", "b", "c", " ">> }

LineSet ==
    { <<"-", " ", "a", "b", "d">>,
      <<"*", " ", "A", "b", "D">>,
      <<"1", ".", " ", "\"", "a", "b", "e", "\"">>,
      <<"-", " ", "a", "b", "c">>,
      <<"-">>,
      <<"a", "b">> }

RECURSIVE SeqsUpTo(_, _)
SeqsUpTo(S, n) ==
    IF n = 0 THEN {<<>>}
    ELSE LET shorter == SeqsUpTo(S, n - 1)
         IN  shorter \cup {Append(t, x) : t \in shorter, x \in S}

NoOut == [kind |-> "none"]

(***************************************************************************)
(* Outcomes of llm_generator.generate: it raises (a timeout, an API        *)
(* error), it returns a response without usable "content", or it returns   *)
(* text.                                                                   *)
(***************************************************************************)
LlmOutcomes ==
    {[kind |-> "raise"], [kind |-> "malformed"]} \cup
    {[kind |-> "text", content |-> JoinLines(ls)] : ls \in SeqsUpTo(LineSet, MaxLines)}

ExpandCall(q) ==
    /\ epc = "idle"
    /\ equery' = q
    /\ llmCalls' = 0
    /\ llmOut' = NoOut
    /\ IF IsTrivial(q)
       THEN eresult' = TrivialResult(q) /\ epc' = "done"
       ELSE eresult' = <<>> /\ epc' = "llm"
    /\ UNCHANGED <<hashSeed, expansion_count>>
    /\ UNCHANGED <<svars, rvars, cvars, ivars>>

LlmGenerate ==
    /\ epc = "llm"
    /\ \E o \in LlmOutcomes : llmOut' = o
    /\ llmCalls' = llmCalls + 1
    /\ epc' = "parse"
    /\ UNCHANGED <<hashSeed, expansion_count, equery, eresult>>
    /\ UNCHANGED <<svars, rvars, cvars, ivars>>

ExpandReturn ==
    /\ epc = "parse"
    /\ eresult' = ExpandTry(equery, llmOut, hashSeed, expansion_count)
    /\ epc' = "done"
    /\ UNCHANGED <<hashSeed, expansion_count, equery, llmOut, llmCalls>>
    /\ UNCHANGED <<svars, rvars, cvars, ivars>>

ExpandDone ==
    /\ epc = "done"
    /\ epc' = "idle"
    /\ equery' = <<>>
    /\ llmOut' = NoOut
    /\ llmCalls' = 0
    /\ eresult' = <<>>
    /\ UNCHANGED <<hashSeed, expansion_count>>
    /\ UNCHANGED <<svars, rvars, cvars, ivars>>

-----------------------------------------------------------------------------
(* VectorStore: one ChromaDB collection per collection name *)

TenantIds == { <<"a", "b">>, <<"a", "-", "b">>, <<"a", "_", "b">> }

DocIds == { <<"d", "1">>, <<"d", "2">> }

\* str.isalnum for one character
IsAlnum(c) == c \in {"a", "b", "c", "d", "e", "A", "D", "1", "2"}

\* a variant of the sanitiser that keeps every character of the tenant id
CollectionNameVerbatim(tenant_id) == <<"t", "e", "n", "a", "n", "t", "_">> \o tenant_id

\* VectorStore._get_collection_name
CollectionName(tenant_id) ==
    <<"t", "e", "n", "a", "n", "t", "_">> \o
    [i \in 1..Len(tenant_id) |->
        IF IsAlnum(tenant_id[i]) \/ tenant_id[i] = "_" THEN tenant_id[i] ELSE "_"]

Collections == {CollectionName(t) : t \in TenantIds} \cup {CollectionNameVerbatim(t) : t \in TenantIds}

\* str(n) for a small number
Digits(n) == <<CASE n = 0 -> "0" [] n = 1 -> "1" [] n = 2 -> "2" [] OTHER -> "3">>

\* the id  f"{chunk.document_id}_v{chunk.document_version}_{chunk.chunk_index}"
ChunkId(document_id, document_version, chunk_index) ==
    document_id \o <<"_", "v">> \o Digits(document_version) \o <<"_">> \o Digits(chunk_index)

\* the points query and chunk embeddings lie on; L2 distance is the gap between two
EmbPoints == 0..2

Abs(x) == IF x < 0 THEN -x ELSE x

(***************************************************************************)
(* One stored entry: the id, the document text, the metadata add_chunks    *)
(* writes, and the embedding.  owner records the tenant_id the entry was   *)
(* added under; the program does not store it.                             *)
(***************************************************************************)
MkEntry(tenant_id, chunk, emb) ==
    [ id               |-> ChunkId(chunk.document_id, chunk.document_version, chunk.chunk_index),
      content          |-> chunk.content,
      document_id      |-> chunk.document_id,
      document_version |-> chunk.document_version,
      chunk_index      |-> chunk.chunk_index,
      emb              |-> emb,
      owner            |-> tenant_id ]

\* collection.add: an id the collection already holds keeps its stored entry
CollectionAdd(coll, entries) ==
    coll \cup {e \in entries : \A o \in coll : o.id # e.id}

\* the entries a where clause {document_id[, document_version]} selects
WhereMatch(coll, document_id, version) ==
    {e \in coll : /\ e.document_id = document_id
                  /\ version # 0 => e.document_version = version}

\* add_chunks, after its empty and length checks
StoreAdd(st, tenant_id, chunks, embeddings) ==
    IF chunks = <<>> \/ embeddings = <<>> THEN st
    ELSE [st EXCEPT ![CollectionName(tenant_id)] =
            CollectionAdd(@, {MkEntry(tenant_id, chunks[i], embeddings[i]) : i \in 1..Len(chunks)})]

\* delete_by_document; version 0 stands for None
StoreDelete(st, tenant_id, document_id, version) ==
    [st EXCEPT ![CollectionName(tenant_id)] = @ \ WhereMatch(@, document_id, version)]

IdBefore(a, b) == a.id = b.id \/ LexLess(a.id, b.id)

RECURSIVE Nearest(_, _, _)
(***************************************************************************)
(* collection.query: the n entries nearest to the query embedding, nearest *)
(* first, each with its distance.  Entries at equal distance come in id    *)
(* order.                                                                  *)
(***************************************************************************)
Nearest(coll, emb, n) ==
    IF coll = {} \/ n <= 0 THEN <<>>
    ELSE LET m == CHOOSE x \in coll : \A y \in coll :
                    \/ Abs(x.emb - emb) < Abs(y.emb - emb)
                    \/ Abs(x.emb - emb) = Abs(y.emb - emb) /\ IdBefore(x, y)
         IN  <<[entry |-> m, distance |-> Abs(m.emb - emb)]>> \o Nearest(coll \ {m}, emb, n - 1)

\* VectorStore.query
VectorQuery(st, tenant_id, query_embedding, top_k) ==
    Nearest(st[CollectionName(tenant_id)], query_embedding, top_k)

(* Inputs of the vector-store operations *)

ContentSet == { <<"a", "b", "c">>, <<"a", "b", "d">> }

MkChunk(document_id, document_version, chunk_index, content) ==
    [ document_id      |-> document_id,
      document_version |-> document_version,
      chunk_index      |-> chunk_index,
      content          |-> content ]

EmptyStore == [c \in Collections |-> {}]

NoOp == [op |-> "none"]

AddChunks(tenant_id, chunks, embeddings) ==
    /\ sops < MaxStoreOps
    /\ Len(chunks) = Len(embeddings)
    /\ store' = StoreAdd(store, tenant_id, chunks, embeddings)
    /\ slast' = [op |-> "add", tenant |-> tenant_id, chunks |-> chunks,
                 stored |-> Len(chunks)]
    /\ sops' = sops + 1
    /\ UNCHANGED <<evars, rvars, cvars, ivars>>

DeleteByDocument(tenant_id, document_id, version) ==
    /\ sops < MaxStoreOps
    /\ store' = StoreDelete(store, tenant_id, document_id, version)
    /\ slast' = [op |-> "delete", tenant |-> tenant_id,
                 removed |-> store[CollectionName(tenant_id)] \ store'[CollectionName(tenant_id)],
                 lost |-> UNION {store[c] \ store'[c] : c \in Collections}]
    /\ sops' = sops + 1
    /\ UNCHANGED <<evars, rvars, cvars, ivars>>

Query(tenant_id, query_embedding, top_k) ==
    /\ sops < MaxStoreOps
    /\ slast' = [op |-> "query", tenant |-> tenant_id,
                 results |-> VectorQuery(store, tenant_id, query_embedding, top_k)]
    /\ sops' = sops + 1
    /\ UNCHANGED <<store, evars, rvars, cvars, ivars>>

-----------------------------------------------------------------------------
(* Scores: exact rationals n/d in lowest terms, d > 0 *)

RECURSIVE Gcd(_, _)
Gcd(a, b) == IF b = 0 THEN a ELSE Gcd(b, a % b)

Rat(n, d) == LET g == Gcd(Abs(n), d) IN [n |-> n \div g, d |-> d \div g]

RatLess(x, y) == x.n * y.d < y.n * x.d

RatLeq(x, y) == x.n * y.d <= y.n * x.d

RatAdd(x, y) == Rat(x.n * y.d + y.n * x.d, x.d * y.d)

RatMul(x, y) == Rat(x.n * y.n, x.d * y.d)

-----------------------------------------------------------------------------
(* Retriever *)

\* settings.top_k, the default Retriever.top_k
DefaultTopK == 5

\* settings.use_query_expansion
UseQueryExpansion == TRUE

\* the tenant whose collection the retrieve calls search
RetrievalTenant == <<"a", "b">>

RECURSIVE CharSum(_)
CharSum(s) == IF s = <<>> THEN 0 ELSE CharCode(Head(s)) + CharSum(Tail(s))

\* embedding_generator.embed_query: a fixed function of the text
EmbedQuery(text) == CharSum(text) % 3

RECURSIVE SplitFrom(_, _, _)
\* the words of s from position i on; the word under way began at start
\* (0: position i is not inside a word)
SplitFrom(s, i, start) ==
    IF i > Len(s)
    THEN IF start > 0 THEN <<SubSeq(s, start, Len(s))>> ELSE <<>>
    ELSE IF IsSpace(s[i])
    THEN (IF start > 0 THEN <<SubSeq(s, start, i - 1)>> ELSE <<>>) \o SplitFrom(s, i + 1, 0)
    ELSE SplitFrom(s, i + 1, IF start > 0 THEN start ELSE i)

\* str.split(): the maximal runs of non-whitespace characters
Split(s) == SplitFrom(s, 1, 0)

\* the chunk_key  f"{res.document_id}_{res.document_version}_{res.chunk_index}"
ChunkKey(res) ==
    res.document_id \o <<"_">> \o Digits(res.document_version) \o <<"_">> \o Digits(res.chunk_index)

\* the RetrievalResult of one neighbour: similarity = 1 - distance / 2
ParseOne(r) ==
    [ content          |-> r.entry.content,
      document_id      |-> r.entry.document_id,
      document_version |-> r.entry.document_version,
      chunk_index      |-> r.entry.chunk_index,
      relevance_score  |-> Rat(2 - r.distance, 2) ]

RECURSIVE ParseResults(_)
\* _parse_results: one RetrievalResult per neighbour, in the order of the neighbours
ParseResults(results) ==
    IF results = <<>> THEN <<>> ELSE <<ParseOne(Head(results))>> \o ParseResults(Tail(results))

RECURSIVE StableSortDesc(_)
\* list.sort(key=relevance_score, reverse=True): equal scores keep their order
StableSortDesc(list) ==
    IF list = <<>> THEN <<>>
    ELSE LET i == CHOOSE j \in 1..Len(list) :
                    /\ \A m \in 1..Len(list) : RatLeq(list[m].relevance_score, list[j].relevance_score)
                    /\ \A m \in 1..(j - 1) : RatLess(list[m].relevance_score, list[j].relevance_score)
         IN  <<list[i]>> \o StableSortDesc(SubSeq(list, 1, i - 1) \o SubSeq(list, i + 1, Len(list)))

RECURSIVE Bm25Scores(_, _)
(***************************************************************************)
(* BM25Okapi(tokenized_docs).get_scores(tokenized_query), one score per    *)
(* document: here the number of query tokens the document contains.        *)
(***************************************************************************)
Bm25Scores(tokenized_query, tokenized_docs) ==
    IF tokenized_docs = <<>> THEN <<>>
    ELSE <<Cardinality({j \in 1..Len(tokenized_query) :
                           tokenized_query[j] \in Elems(Head(tokenized_docs))})>>
         \o Bm25Scores(tokenized_query, Tail(tokenized_docs))

SeqMax(seq) == CHOOSE x \in Elems(seq) : \A y \in Elems(seq) : y <= x

RECURSIVE TokenizeDocs(_)
\* tokenized_docs = [doc.lower().split() for doc in documents]
TokenizeDocs(results) ==
    IF results = <<>> THEN <<>>
    ELSE <<Split(Lower(Head(results).content))>> \o TokenizeDocs(Tail(results))

\* a variant of the fusion that gives alpha to the lexical score
HybridScoreSwapped(alpha, vector_score, bm25_score) ==
    RatAdd(RatMul(alpha, bm25_score), RatMul(Rat(alpha.d - alpha.n, alpha.d), vector_score))

\* hybrid_score = alpha * vector_score + (1 - alpha) * bm25_score
HybridScore(alpha, vector_score, bm25_score) ==
    RatAdd(RatMul(alpha, vector_score), RatMul(Rat(alpha.d - alpha.n, alpha.d), bm25_score))

RECURSIVE Rescore(_, _, _, _)
\* the loop that sets every result's relevance_score to its hybrid score,
\* bm25_score being normalized_bm25[i] = bm25_scores[i] / max_bm25
Rescore(results, bm25_scores, max_bm25, alpha) ==
    IF results = <<>> THEN <<>>
    ELSE <<[Head(results) EXCEPT !.relevance_score =
               HybridScore(alpha, @, Rat(Head(bm25_scores), max_bm25))]>>
         \o Rescore(Tail(results), Tail(bm25_scores), max_bm25, alpha)

\* _hybrid_rerank
HybridRerank(query, results, alpha, top_k) ==
    IF results = <<>> THEN results
    ELSE LET bm25_scores == Bm25Scores(Split(Lower(query)), TokenizeDocs(results))
             top         == SeqMax(bm25_scores)
             max_bm25    == IF top > 0 THEN top ELSE 1
         IN  Take(StableSortDesc(Rescore(results, bm25_scores, max_bm25, alpha)), top_k)

\* a variant of the loop body that skips a phrasing whose embedding or search fails
SearchPhrasingSwallow(st, tenant_id, q, k, use_hybrid, alpha, failure) ==
    IF failure # "none" THEN [raised |-> FALSE, hits |-> <<>>]
    ELSE LET results == VectorQuery(st, tenant_id, EmbedQuery(q), IF use_hybrid THEN k * 2 ELSE k)
             parsed  == ParseResults(results)
         IN  [raised |-> FALSE,
              hits   |-> IF use_hybrid THEN HybridRerank(q, parsed, alpha, k) ELSE parsed]

(***************************************************************************)
(* One pass of the loop over queries_to_search: embed the phrasing, query  *)
(* the index, parse and (in hybrid mode) rerank.  An exception of          *)
(* embed_query or of vector_store.query is not caught.                     *)
(***************************************************************************)
SearchPhrasing(st, tenant_id, q, k, use_hybrid, alpha, failure) ==
    IF failure # "none" THEN [raised |-> TRUE, hits |-> <<>>]
    ELSE LET results == VectorQuery(st, tenant_id, EmbedQuery(q), IF use_hybrid THEN k * 2 ELSE k)
             parsed  == ParseResults(results)
         IN  [raised |-> FALSE,
              hits   |-> IF use_hybrid THEN HybridRerank(q, parsed, alpha, k) ELSE parsed]

RECURSIVE SearchAll(_, _, _, _, _, _, _, _, _)
\* the loop: all_vector_results accumulated in acc, or the exception raised
SearchAll(st, tenant_id, queries, i, k, use_hybrid, alpha, fail, acc) ==
    IF i > Len(queries) THEN [raised |-> FALSE, hits |-> acc]
    ELSE LET o == SearchPhrasing(st, tenant_id, queries[i], k, use_hybrid, alpha,
                                 IF fail.at = i THEN fail.kind ELSE "none")
         IN  IF o.raised THEN [raised |-> TRUE, hits |-> acc]
             ELSE SearchAll(st, tenant_id, queries, i + 1, k, use_hybrid, alpha, fail, acc \o o.hits)

\* a variant of the replacement test that keeps the lower score
ReplacesLower(res, kept) == RatLess(res.relevance_score, kept.relevance_score)

\* a variant of the replacement test that lets the later result win
ReplacesAlways(res, kept) == TRUE

\* res.relevance_score > seen_chunks[chunk_key].relevance_score
Replaces(res, kept) == RatLess(kept.relevance_score, res.relevance_score)

RECURSIVE Dedupe(_, _)
(***************************************************************************)
(* seen_chunks, as the list of its values in first-insertion order: a      *)
(* result whose key is new is appended, one whose score beats the kept     *)
(* entry's replaces it in place.                                           *)
(***************************************************************************)
Dedupe(all_results, seen) ==
    IF all_results = <<>> THEN seen
    ELSE LET res  == Head(all_results)
             same == {j \in 1..Len(seen) : ChunkKey(seen[j]) = ChunkKey(res)}
         IN  IF same = {} THEN Dedupe(Tail(all_results), Append(seen, res))
             ELSE LET j == CHOOSE x \in same : TRUE
                  IN  Dedupe(Tail(all_results),
                             IF Replaces(res, seen[j]) THEN [seen EXCEPT ![j] = res] ELSE seen)

\* a variant of the filter that drops a score equal to the threshold
KeepAbove(list, threshold) ==
    LET Keep(r) == RatLess(threshold, r.relevance_score) IN SelectSeq(list, Keep)

\* the results with r.relevance_score >= threshold, in the order of list
KeepAtLeast(list, threshold) ==
    LET Keep(r) == RatLeq(threshold, r.relevance_score) IN SelectSeq(list, Keep)

\* a variant of the filter that keeps every result
FilterNothing(list, threshold) == list

\* filtered = [r for r in final_list if r.relevance_score >= threshold]
FilterByThreshold(list, threshold) == KeepAtLeast(list, threshold)

\* a variant of the final cut that keeps the whole list
LimitNothing(list, k) == list

\* final_results = filtered[:k]
LimitTopK(list, k) == Take(list, k)

\* k = top_k or self.top_k
EffectiveK(top_k) == IF top_k # 0 THEN top_k ELSE DefaultTopK

\* query_expander.generate_variations(query), for one outcome of the language model
GenerateVariations(query, out, seed, count) ==
    IF IsTrivial(query) THEN TrivialResult(query) ELSE ExpandTry(query, out, seed, count)

\* queries_to_search
QueriesToSearch(query, out, seed, count) ==
    IF UseQueryExpansion
    THEN SetOrder({Lower(query)} \cup
                  {Lower(q) : q \in Elems(GenerateVariations(query, out, seed, count))}, seed)
    ELSE <<query>>

(***************************************************************************)
(* Retriever.retrieve as one computation: the record of what it searched,  *)
(* collected, merged and returned, or that it raised.  fail names the      *)
(* phrasing at which a collaborator call fails, if any.                    *)
(***************************************************************************)
RetrieveCall(st, args, out, queries, fail) ==
    LET k         == EffectiveK(args.top_k)
        failing   == fail.kind # "none" /\ fail.at <= Len(queries)
        searched  == SearchAll(st, args.tenant_id, queries, 1, k, args.use_hybrid,
                               args.hybrid_alpha, fail, <<>>)
        pool      == StableSortDesc(Dedupe(searched.hits, <<>>))
        final     == IF searched.hits = <<>> THEN <<>>
                     ELSE LimitTopK(FilterByThreshold(pool, args.relevance_threshold), k)
    IN  [ args     |-> args,
          llm      |-> out,
          queries  |-> queries,
          failed   |-> IF failing THEN fail.kind ELSE "none",
          failed_at |-> IF failing THEN fail.at ELSE 0,
          outcome  |-> IF searched.raised THEN "raised" ELSE "returned",
          hits     |-> IF searched.raised THEN <<>> ELSE searched.hits,
          pool     |-> IF searched.raised THEN <<>> ELSE pool,
          result   |-> IF searched.raised THEN <<>> ELSE final ]

(* Inputs of retrieve *)

NoCall == [outcome |-> "none"]

RetrieveQueries == { <<"a", "b", "c">>, <<"A", "b", "c", " ">> }

\* hybrid_alpha when use_hybrid is off: the parameter's default, 0.7
DefaultAlpha == Rat(7, 10)

AlphaSet == { Rat(0, 1), Rat(1, 2), Rat(1, 1) }

ThresholdSet == { Rat(1, 2), Rat(1, 1) }

\* the (use_hybrid, hybrid_alpha) pairs: vector-only, or hybrid with a weight
SearchModes == {<<FALSE, DefaultAlpha>>} \cup {<<TRUE, a>> : a \in AlphaSet}

\* the argument lists of retrieve(query, ...)
RetrieveArgs(q) ==
    { [ query               |-> q,
        tenant_id           |-> RetrievalTenant,
        top_k               |-> k,
        use_hybrid          |-> m[1],
        hybrid_alpha        |-> m[2],
        relevance_threshold |-> t ] :
      k \in 0..MaxTopK, m \in SearchModes, t \in ThresholdSet }

\* the replies of the language model explored by the retrieve calls
RetrieveLlmOutcomes ==
    { [kind |-> "raise"],
      [kind |-> "text", content |-> <<>>],
      [kind |-> "text", content |-> <<"-", " ", "a", "b", "d">>],
      [kind |-> "text", content |-> JoinLines(<< <<"-", " ", "a", "b", "d">>,
                                                 <<"1", ".", " ", "\"", "a", "b", "e", "\"">> >>)] }

NoFailure == [at |-> 0, kind |-> "none"]

\* a collaborator call that fails: embed_query or vector_store.query, at one of n phrasings
Failures(n) == {[at |-> i, kind |-> c] : i \in 1..n, c \in {"embed", "query"}}

\* the chunks the tenant's collection may hold
IndexChunks ==
    << MkChunk(<<"d", "1">>, 1, 0, <<"a", "b", "c">>),
       MkChunk(<<"d", "1">>, 1, 1, <<"a", "b", "d">>),
       MkChunk(<<"d", "2">>, 1, 0, <<"a", "b", "d">>) >>

\* the tenant's collection after ingestion: any of the chunks, with any embedding
IndexChoices ==
    { [EmptyStore EXCEPT ![CollectionName(RetrievalTenant)] =
          {MkEntry(RetrievalTenant, IndexChunks[i], f[i]) : i \in {j \in 1..Len(IndexChunks) : f[j] >= 0}}] :
      f \in [1..Len(IndexChunks) -> EmbPoints \cup {-1}] }

\* one call of retrieve, with any arguments, any reply of the language model
\* and at most one failing collaborator call
Retrieve ==
    /\ rpc = "idle"
    /\ \E q \in RetrieveQueries, out \in RetrieveLlmOutcomes :
          LET queries == QueriesToSearch(q, out, hashSeed, expansion_count)
          IN  \E args \in RetrieveArgs(q), fail \in {NoFailure} \cup Failures(Len(queries)) :
                 rcall' = RetrieveCall(store, args, out, queries, fail)
    /\ rpc' = "done"
    /\ UNCHANGED <<rfirst, evars, svars, cvars, ivars>>

RetrieveDone ==
    /\ rpc = "done"
    /\ rpc' = "idle"
    /\ rcall' = NoCall
    /\ UNCHANGED <<rfirst, evars, svars, cvars, ivars>>

\* the first of two identical calls
RetrieveFirst ==
    /\ rpc = "idle"
    /\ rfirst = NoCall
    /\ \E q \in RetrieveQueries, out \in RetrieveLlmOutcomes :
          LET queries == QueriesToSearch(q, out, hashSeed, expansion_count)
          IN  \E args \in RetrieveArgs(q) :
                 rcall' = RetrieveCall(store, args, out, queries, NoFailure)
    /\ rfirst' = rcall'
    /\ rpc' = "first"
    /\ UNCHANGED <<evars, svars, cvars, ivars>>

\* the service process is restarted: the interpreter draws a new hash seed,
\* the persisted index stays as it is
Restart ==
    /\ rpc = "first"
    /\ \E h \in 0..(NumSeeds - 1) : h # hashSeed /\ hashSeed' = h
    /\ UNCHANGED <<expansion_count, epc, equery, llmOut, llmCalls, eresult, svars, rvars, cvars, ivars>>

\* the same call once more: same arguments, same index, same reply of the language model
RetrieveAgain ==
    /\ rpc = "first"
    /\ rcall' = RetrieveCall(store, rfirst.args, rfirst.llm,
                              QueriesToSearch(rfirst.args.query, rfirst.llm, hashSeed, expansion_count),
                              NoFailure)
    /\ rpc' = "again"
    /\ UNCHANGED <<rfirst, evars, svars, cvars, ivars>>

-----------------------------------------------------------------------------
(* TextChunker: text -> paragraphs -> sentences -> chunks *)

\* settings.chunk_size
DefaultChunkSize == 300

\* settings.chunk_overlap
DefaultChunkOverlap == 50

\* the character class [.!?]
IsTerminator(c) == c \in {".", "!", "?"}

RECURSIVE SpaceEnd(_, _)
\* the last position of the whitespace run that starts at p; p - 1 if there is none
SpaceEnd(s, p) == IF p <= Len(s) /\ IsSpace(s[p]) THEN SpaceEnd(s, p + 1) ELSE p - 1

(***************************************************************************)
(* A match of \n\s*\n at p: the last position of the match, 0 if there is  *)
(* none.  \s* is greedy and gives characters back until a \n follows.      *)
(***************************************************************************)
ParaBreakEnd(s, p) ==
    IF s[p] # "\n" THEN 0
    ELSE LET nl == {q \in (p + 1)..SpaceEnd(s, p + 1) : s[q] = "\n"}
         IN  IF nl = {} THEN 0 ELSE CHOOSE q \in nl : \A r \in nl : r <= q

\* a match of (?<=[.!?])\s+ at p: the last position of the match, 0 if none
SentBreakEnd(s, p) ==
    IF p > 1 /\ IsTerminator(s[p - 1]) /\ IsSpace(s[p]) THEN SpaceEnd(s, p) ELSE 0

RECURSIVE SplitParaFrom(_, _, _)
\* re.split(r'\n\s*\n', s): the pieces from position start on, scanning at p
SplitParaFrom(s, start, p) ==
    IF p > Len(s) THEN <<SubSeq(s, start, Len(s))>>
    ELSE LET e == ParaBreakEnd(s, p)
         IN  IF e = 0 THEN SplitParaFrom(s, start, p + 1)
             ELSE <<SubSeq(s, start, p - 1)>> \o SplitParaFrom(s, e + 1, e + 1)

RECURSIVE SplitSentFrom(_, _, _)
\* re.split(r'(?<=[.!?])\s+', s)
SplitSentFrom(s, start, p) ==
    IF p > Len(s) THEN <<SubSeq(s, start, Len(s))>>
    ELSE LET e == SentBreakEnd(s, p)
         IN  IF e = 0 THEN SplitSentFrom(s, start, p + 1)
             ELSE <<SubSeq(s, start, p - 1)>> \o SplitSentFrom(s, e + 1, e + 1)

RECURSIVE StripNonEmpty(_)
\* [p.strip() for p in pieces if p.strip()]
StripNonEmpty(pieces) ==
    IF pieces = <<>> THEN <<>>
    ELSE LET t == Strip(Head(pieces))
         IN  (IF t # <<>> THEN <<t>> ELSE <<>>) \o StripNonEmpty(Tail(pieces))

\* _split_paragraphs
SplitParagraphs(text) == StripNonEmpty(SplitParaFrom(text, 1, 1))

\* simple_sent_tokenize
SimpleSentTokenize(text) == StripNonEmpty(SplitSentFrom(text, 1, 1))

RECURSIVE WithMarkers(_)
\* the sentences of every paragraph, each non-empty group followed by the marker ""
WithMarkers(paragraphs) ==
    IF paragraphs = <<>> THEN <<>>
    ELSE LET sents == SimpleSentTokenize(Head(paragraphs))
         IN  sents \o (IF sents # <<>> THEN << <<>> >> ELSE <<>>) \o WithMarkers(Tail(paragraphs))

RECURSIVE DropTrailingMarkers(_)
\* while all_sentences and not all_sentences[-1]: all_sentences.pop()
DropTrailingMarkers(all) ==
    IF all # <<>> /\ all[Len(all)] = <<>>
    THEN DropTrailingMarkers(SubSeq(all, 1, Len(all) - 1))
    ELSE all

\* all_sentences, as chunk hands it to _create_chunks
AllSentences(text) == DropTrailingMarkers(WithMarkers(SplitParagraphs(text)))

\* _count_tokens
CountTokens(text) == Len(Split(text))

RECURSIVE JoinSpace(_)
\* " ".join(list)
JoinSpace(list) ==
    IF list = <<>> THEN <<>>
    ELSE IF Len(list) = 1 THEN list[1]
    ELSE list[1] \o <<" ">> \o JoinSpace(Tail(list))

\* a variant of the marker test that takes no sentence for a marker
IsMarkerNever(sentence) == FALSE

\* not sentence: the empty string that marks a paragraph break
IsMarker(sentence) == sentence = <<>>

\* a variant of the size test that never finds the chunk full
ExceedsNever(count, tokens, size) == FALSE

\* current_token_count + sentence_tokens > self.chunk_size
Exceeds(count, tokens, size) == count + tokens > size

\* a variant of the overlap test that lets every sentence in
OverlapFitsAlways(overlap_tokens, sent_tokens, limit) == TRUE

\* overlap_tokens + sent_tokens <= self.chunk_overlap
OverlapFits(overlap_tokens, sent_tokens, limit) == overlap_tokens + sent_tokens <= limit

RECURSIVE OverlapCount(_, _, _, _)
(***************************************************************************)
(* The loop over reversed(current_chunk_sentences): how many sentences,    *)
(* counted from the end, go into overlap_sentences before the loop breaks  *)
(* or runs out; n are taken already, with overlap_tokens tokens.           *)
(***************************************************************************)
OverlapCount(current, n, overlap_tokens, limit) ==
    IF n < Len(current)
       /\ OverlapFits(overlap_tokens, CountTokens(current[Len(current) - n]), limit)
    THEN OverlapCount(current, n + 1,
                      overlap_tokens + CountTokens(current[Len(current) - n]), limit)
    ELSE n

\* a variant of the carry-over that takes the sentences from the front
OverlapSentencesFront(current, limit) ==
    SubSeq(current, 1, OverlapCount(current, 0, 0, limit))

\* overlap_sentences
OverlapSentences(current, limit) ==
    SubSeq(current, Len(current) - OverlapCount(current, 0, 0, limit) + 1, Len(current))

RECURSIVE TokenSum(_)
TokenSum(list) == IF list = <<>> THEN 0 ELSE CountTokens(Head(list)) + TokenSum(Tail(list))

\* a variant of the size test's second operand that takes every list for open
ChunkOpenAlways(current) == TRUE

\* and current_chunk_sentences: the chunk under assembly holds a sentence
ChunkOpen(current) == current # <<>>

\* a variant of the loop step that stays on the sentence
SameSentenceIdx(i) == i

\* sentence_idx += 1
NextSentenceIdx(i) == i + 1

\* a variant of the index step that leaves the index where it is
SameChunkIndex(i) == i

\* chunk_index += 1
NextChunkIndex(i) == i + 1

\* the document a chunk call is made for
ChunkDocument == [document_id |-> <<"d", "1">>, document_version |-> 1]

(***************************************************************************)
(* Chunk(content, document_id, document_version, chunk_index, token_count).*)
(* sents and overlap record the sentences the content was joined from and  *)
(* how many of them, at the front, were carried over from the chunk        *)
(* before; the program keeps neither.                                      *)
(***************************************************************************)
NewChunk(sents, n_carried, index, tokens) ==
    [ content          |-> JoinSpace(sents),
      document_id      |-> ChunkDocument.document_id,
      document_version |-> ChunkDocument.document_version,
      chunk_index      |-> index,
      token_count      |-> tokens,
      sents            |-> sents,
      overlap          |-> n_carried ]

(* Inputs of chunk *)

\* the sentences and separators the explored texts are put together from
PieceSet == { <<"a", ".">>, <<"b", " ", "c", "!">>, <<"d">> }

SeparatorSet == { <<" ">>, <<"\n", "\n">> }

RECURSIVE Interleave(_, _)
\* pieces[1] seps[1] pieces[2] ... : Len(seps) = Len(pieces) - 1
Interleave(pieces, seps) ==
    IF Len(pieces) = 1 THEN pieces[1]
    ELSE pieces[1] \o seps[1] \o Interleave(Tail(pieces), Tail(seps))

RECURSIVE SeqsOfLen(_, _)
SeqsOfLen(S, n) ==
    IF n = 0 THEN {<<>>} ELSE {Append(t, x) : t \in SeqsOfLen(S, n - 1), x \in S}

ComposedTexts ==
    UNION { {Interleave(ps, ss) : ps \in SeqsOfLen(PieceSet, n), ss \in SeqsOfLen(SeparatorSet, n - 1)} :
            n \in 1..MaxSentences }

RECURSIVE Repeat(_, _)
\* n times the word w, separated by single spaces
Repeat(w, n) == IF n = 1 THEN <<w>> ELSE <<w, " ">> \o Repeat(w, n - 1)

\* four 6-word sentences, a blank line after the second
FourSentenceText ==
    Repeat("a", 6) \o <<".", " ">> \o Repeat("b", 6) \o <<".", "\n", "\n">> \o
    Repeat("c", 6) \o <<".", " ">> \o Repeat("d", 6) \o <<".">>

\* texts with irregular whitespace, and the empty and whitespace-only ones
OddTexts ==
    { <<>>, <<" ">>, <<"\n", " ", "\n">>,
      <<" ", "a", ".", "\n", " ", "\n", "\n", "b", " ", " ", "c", "!", " ", "\n", "d", " ">>,
      <<"a", ".", "b", "?", " ", "\n", "c", " ", ".", "\n", "\n", " ">>,
      FourSentenceText }

\* str arguments of chunk
StrTexts == {[type |-> "str", value |-> v] : v \in ComposedTexts \cup OddTexts}

\* arguments of chunk that are not str: None, int, list, bytes
NonStrTexts ==
    { [type |-> "NoneType"],
      [type |-> "int", number |-> 0],
      [type |-> "int", number |-> 7],
      [type |-> "list", items |-> <<>>],
      [type |-> "list", items |-> << <<"a", ".">> >>],
      [type |-> "bytes", value |-> <<" ">>],
      [type |-> "bytes", value |-> <<"a", ".">>] }

\* bool(text)
Truthy(text) ==
    CASE text.type = "NoneType" -> FALSE
      [] text.type = "int"      -> text.number # 0
      [] text.type = "list"     -> text.items # <<>>
      [] OTHER                  -> text.value # <<>>

\* the types that have a strip method
HasStrip(text) == text.type \in {"str", "bytes"}

NoText == [type |-> "none"]

\* TextChunker(chunk_size, chunk_overlap); 0 stands for 0 and for None
ChunkConfigs ==
    {[chunk_size |-> c, chunk_overlap |-> o] : c \in 0..MaxChunkSize, o \in 0..MaxChunkOverlap}
    \cup {[chunk_size |-> 10, chunk_overlap |-> 3]}

\* __init__: chunk_size or settings.chunk_size, chunk_overlap or settings.chunk_overlap
Constructed(config) ==
    /\ cconfig = config
    /\ chunk_size = (IF config.chunk_size # 0 THEN config.chunk_size ELSE DefaultChunkSize)
    /\ chunk_overlap = (IF config.chunk_overlap # 0 THEN config.chunk_overlap
                        ELSE DefaultChunkOverlap)

\* no chunk call is under way
ChunkIdle ==
    /\ cpc = "idle"
    /\ ctext = NoText
    /\ sentences = <<>>
    /\ sentence_idx = 0
    /\ current_chunk_sentences = <<>>
    /\ current_token_count = 0
    /\ carried = 0
    /\ chunk_no = 0
    /\ chunk_list = <<>>
    /\ cerror = "none"

\* the call is over at once: it returns the empty list or raises
ChunkEnds(pc, err) ==
    /\ cpc' = pc
    /\ cerror' = err
    /\ UNCHANGED <<sentences, sentence_idx, current_chunk_sentences, current_token_count,
                   carried, chunk_no, chunk_list>>

(***************************************************************************)
(* chunk(text, ...) up to the first pass of the loop of _create_chunks:    *)
(* the guard  not text or not text.strip(), the paragraph and sentence     *)
(* split, and the initialisation of the loop.                              *)
(***************************************************************************)
ChunkCall(text) ==
    /\ cpc = "idle"
    /\ ctext' = text
    /\ IF ~Truthy(text) THEN ChunkEnds("returned", "none")
       ELSE IF ~HasStrip(text) THEN ChunkEnds("raised", "AttributeError")
       ELSE IF Strip(text.value) = <<>> THEN ChunkEnds("returned", "none")
       ELSE IF text.type # "str" THEN ChunkEnds("raised", "TypeError")
       ELSE /\ cpc' = "loop"
            /\ sentences' = AllSentences(text.value)
            /\ UNCHANGED <<sentence_idx, current_chunk_sentences, current_token_count,
                           carried, chunk_no, chunk_list, cerror>>
    /\ UNCHANGED <<chunk_size, chunk_overlap, cconfig, evars, svars, rvars, ivars>>

\* one pass of  while sentence_idx < len(sentences)
ChunkLoop ==
    /\ cpc = "loop"
    /\ sentence_idx < Len(sentences)
    /\ LET sentence == sentences[sentence_idx + 1]
           tokens   == CountTokens(sentence)
           full     == /\ Exceeds(current_token_count, tokens, chunk_size)
                       /\ ChunkOpen(current_chunk_sentences)
           overlap  == OverlapSentences(current_chunk_sentences, chunk_overlap)
       IN  IF IsMarker(sentence)
           THEN UNCHANGED <<current_chunk_sentences, current_token_count, carried,
                            chunk_no, chunk_list>>
           ELSE /\ chunk_list' =
                      (IF full
                       THEN Append(chunk_list, NewChunk(current_chunk_sentences, carried,
                                                        chunk_no, current_token_count))
                       ELSE chunk_list)
                /\ chunk_no' = (IF full THEN NextChunkIndex(chunk_no) ELSE chunk_no)
                /\ current_chunk_sentences' =
                      Append(IF full THEN overlap ELSE current_chunk_sentences, sentence)
                /\ current_token_count' =
                      (IF full THEN TokenSum(overlap) ELSE current_token_count) + tokens
                /\ carried' = (IF full THEN Len(overlap) ELSE carried)
    /\ sentence_idx' = NextSentenceIdx(sentence_idx)
    /\ UNCHANGED <<cpc, ctext, sentences, cerror, chunk_size, chunk_overlap, cconfig,
                   evars, svars, rvars, ivars>>

\* the loop is over: the last chunk is appended and the list returned
ChunkFinish ==
    /\ cpc = "loop"
    /\ sentence_idx >= Len(sentences)
    /\ chunk_list' =
          (IF current_chunk_sentences # <<>>
           THEN Append(chunk_list, NewChunk(current_chunk_sentences, carried,
                                            chunk_no, current_token_count))
           ELSE chunk_list)
    /\ cpc' = "returned"
    /\ UNCHANGED <<ctext, sentences, sentence_idx, current_chunk_sentences,
                   current_token_count, carried, chunk_no, cerror,
                   chunk_size, chunk_overlap, cconfig, evars, svars, rvars, ivars>>

\* the caller has the result; the chunker is ready for the next call
ChunkDone ==
    /\ cpc \in {"returned", "raised"}
    /\ cpc' = "idle"
    /\ ctext' = NoText
    /\ sentences' = <<>>
    /\ sentence_idx' = 0
    /\ current_chunk_sentences' = <<>>
    /\ current_token_count' = 0
    /\ carried' = 0
    /\ chunk_no' = 0
    /\ chunk_list' = <<>>
    /\ cerror' = "none"
    /\ UNCHANGED <<chunk_size, chunk_overlap, cconfig, evars, svars, rvars, ivars>>

-----------------------------------------------------------------------------
(* TextChunker.chunk as one computation *)

RECURSIVE CreateChunks(_, _, _, _, _, _, _, _, _)
(***************************************************************************)
(* _create_chunks from sentence idx on: the passes of the loop and the     *)
(* last chunk, with the chunker's chunk_size and chunk_overlap given as    *)
(* size and limit.                                                         *)
(***************************************************************************)
CreateChunks(sents, idx, current, count, n_carried, index, list, size, limit) ==
    IF idx >= Len(sents)
    THEN IF current # <<>> THEN Append(list, NewChunk(current, n_carried, index, count))
         ELSE list
    ELSE LET sentence == sents[idx + 1]
             tokens   == CountTokens(sentence)
             full     == Exceeds(count, tokens, size) /\ ChunkOpen(current)
             overlap  == OverlapSentences(current, limit)
         IN  IF IsMarker(sentence)
             THEN CreateChunks(sents, NextSentenceIdx(idx), current, count, n_carried,
                               index, list, size, limit)
             ELSE IF full
             THEN CreateChunks(sents, NextSentenceIdx(idx), Append(overlap, sentence),
                               TokenSum(overlap) + tokens, Len(overlap),
                               NextChunkIndex(index),
                               Append(list, NewChunk(current, n_carried, index, count)),
                               size, limit)
             ELSE CreateChunks(sents, NextSentenceIdx(idx), Append(current, sentence),
                               count + tokens, n_carried, index, list, size, limit)

RECURSIVE ChunksOf(_, _, _)
\* the Chunk objects of a document: its id and version on every chunk
ChunksOf(list, document_id, document_version) ==
    IF list = <<>> THEN <<>>
    ELSE <<MkChunk(document_id, document_version, Head(list).chunk_index, Head(list).content)>>
         \o ChunksOf(Tail(list), document_id, document_version)

\* the list chunk(text) builds for a str: empty for a blank text, else what
\* _create_chunks makes of its sentences
ChunkText(text, size, limit) ==
    IF Strip(text) = <<>> THEN <<>>
    ELSE CreateChunks(AllSentences(text), 0, <<>>, 0, 0, 0, <<>>, size, limit)

-----------------------------------------------------------------------------
(* TextPreprocessor *)

\* \w for the characters of the texts
IsWordChar(c) == IsAlnum(c) \/ c = "_"

RECURSIVE WordsFrom(_, _, _)
\* re.findall(r'\b\w+\b', s) from position i on; the word under way began at
\* start (0: position i is not inside a word)
WordsFrom(s, i, start) ==
    IF i > Len(s)
    THEN IF start > 0 THEN <<SubSeq(s, start, Len(s))>> ELSE <<>>
    ELSE IF ~IsWordChar(s[i])
    THEN (IF start > 0 THEN <<SubSeq(s, start, i - 1)>> ELSE <<>>) \o WordsFrom(s, i + 1, 0)
    ELSE WordsFrom(s, i + 1, IF start > 0 THEN start ELSE i)

\* simple_word_tokenize
SimpleWordTokenize(text) == WordsFrom(Lower(text), 1, 0)

\* the members of stopwords.words("english") among the words of the texts
StopWords == { <<"a">>, <<"d">> }

\* _lemmatize: the words of the texts are their own lemmas
Lemmatize(tokens) == tokens

\* _process_text: lower-case, punctuation to spaces, tokens, stopwords out,
\* lemmas, joined by single spaces (no FAQ pattern matches the texts)
ProcessText(text) ==
    LET NotStop(t) == t \notin StopWords
    IN  JoinSpace(Lemmatize(SelectSeq(SimpleWordTokenize(text), NotStop)))

\* preprocess(text, preserve_sentences=False)
Preprocess(text) == IF Strip(text) = <<>> THEN <<>> ELSE ProcessText(text)

RECURSIVE PreprocessAll(_)
\* for chunk in chunks: chunk.content = text_preprocessor.preprocess(chunk.content, ...)
PreprocessAll(chunks) ==
    IF chunks = <<>> THEN <<>>
    ELSE <<[Head(chunks) EXCEPT !.content = Preprocess(@)]>> \o PreprocessAll(Tail(chunks))

-----------------------------------------------------------------------------
(* Document ingestion: process_document, update_document, delete_document *)

\* the tenant and the document of the ingestion
IngestTenant == <<"a", "b">>

IngestDocument == <<"d", "1">>

\* the file paths: 1 is the uploaded file, 2 the file update_document saves
Paths == 1..2

\* the background tasks: 1 is the one upload_document started, 2 the one of
\* update_document
TaskIds == 1..2

NoFile == [exists |-> FALSE, text |-> <<>>]

\* the texts extraction finds in the files
RawTexts ==
    { <<>>,
      <<"a", ".", " ", "b", " ", "c", "!">>,
      <<"b", " ", "c", "!", " ", "D">> }

\* the chunker settings of the deployments explored: the defaults, and
\* CHUNK_SIZE=2, CHUNK_OVERLAP=1
IngestConfigs ==
    { [chunk_size |-> 0, chunk_overlap |-> 0], [chunk_size |-> 2, chunk_overlap |-> 1] }

\* chunk_size and chunk_overlap as __init__ sets them for the settings
IngestSizes ==
    { <<IF c.chunk_size # 0 THEN c.chunk_size ELSE DefaultChunkSize,
        IF c.chunk_overlap # 0 THEN c.chunk_overlap ELSE DefaultChunkOverlap>> :
      c \in IngestConfigs }

\* what chunk() returns for every text and setting, computed once
ChunkTable ==
    { [text |-> x, sizes |-> c, list |-> ChunkText(x, c[1], c[2])] :
      x \in RawTexts, c \in IngestSizes }

\* text_chunker.chunk(text, document_id, document_version, ...)
Chunked(text, document_id, document_version) ==
    ChunksOf((CHOOSE r \in ChunkTable :
                 r.text = text /\ r.sizes = <<chunk_size, chunk_overlap>>).list,
             document_id, document_version)

NoDocument ==
    [ exists |-> FALSE, version |-> 0, status |-> "none", error_message |-> "none",
      chunk_count |-> 0, file_path |-> 0 ]

NoTask ==
    [ pc |-> "none", version |-> 0, path |-> 0, raw |-> <<>>, emitted |-> <<>>,
      chunks |-> <<>>, embeddings |-> <<>>, error |-> "none", stored |-> 0,
      chunk_count |-> 0, error_message |-> "none" ]

NoRequest ==
    [ pc |-> "idle", outcome |-> 0, status |-> "none", version |-> 0, path |-> 0,
      chunk_count |-> 0, error_message |-> "none" ]

\* the value a column has after the commit of a session that loaded it as
\* loaded and assigned value: an assignment of the loaded value changes nothing
\* and is left out of the UPDATE
Committed(loaded, value, column) == IF value = loaded THEN column ELSE value

\* no document has been uploaded
IngestIdle ==
    /\ document = NoDocument
    /\ disk = [p \in Paths |-> NoFile]
    /\ tasks = [t \in TaskIds |-> NoTask]
    /\ upd = NoRequest
    /\ del = NoRequest

\* the task raised: the exception is on its way to the handler of process_document
Raise(t, e) == tasks' = [tasks EXCEPT ![t].pc = "raised", ![t].error = e]

\* await _log_step(...) of a task whose document row is gone may fail on the
\* foreign key of processing_logs, or pass where the database does not enforce it
LogOutcomes == IF document.exists THEN {FALSE} ELSE BOOLEAN

RECURSIVE EmbedAll(_)
\* embedding_generator.embed([chunk.content for chunk in chunks])
EmbedAll(chunks) ==
    IF chunks = <<>> THEN <<>> ELSE <<EmbedQuery(Head(chunks).content)>> \o EmbedAll(Tail(chunks))

\* how many of the chunks the tenant's collection holds under their ids with
\* their content
StoredCount(st, chunks) ==
    Cardinality({i \in 1..Len(chunks) :
        \E e \in st[CollectionName(IngestTenant)] :
            /\ e.id = ChunkId(chunks[i].document_id, chunks[i].document_version,
                              chunks[i].chunk_index)
            /\ e.content = chunks[i].content})

\* the task starts: it loads the row and sets the status to PROCESSING
TaskBegin(t) ==
    /\ tasks[t].pc = "queued"
    /\ IF document.exists
       THEN /\ document' = [document EXCEPT !.status = "PROCESSING"]
            /\ tasks' = [tasks EXCEPT ![t].pc = "begun",
                                      ![t].chunk_count = document.chunk_count,
                                      ![t].error_message = document.error_message]
       ELSE /\ Raise(t, "NoResultFound")
            /\ UNCHANGED document
    /\ UNCHANGED <<disk, upd, del, evars, svars, rvars, cvars>>

\* step 1: text_extractor.extract(file_path, document_id)
TaskExtract(t) ==
    /\ tasks[t].pc = "begun"
    /\ \E lost \in LogOutcomes, fault \in BOOLEAN :
          IF lost THEN Raise(t, "log")
          ELSE IF fault \/ ~disk[tasks[t].path].exists THEN Raise(t, "extraction")
          ELSE tasks' = [tasks EXCEPT ![t].pc = "extracted",
                                      ![t].raw = disk[tasks[t].path].text]
    /\ UNCHANGED <<document, disk, upd, del, evars, svars, rvars, cvars>>

\* step 2: text_chunker.chunk(raw_text, ...)
TaskChunk(t) ==
    /\ tasks[t].pc = "extracted"
    /\ \E lost \in LogOutcomes, fault \in BOOLEAN :
          IF lost THEN Raise(t, "log")
          ELSE IF fault THEN Raise(t, "chunking")
          ELSE LET chunks == Chunked(tasks[t].raw, IngestDocument, tasks[t].version)
               IN  tasks' = [tasks EXCEPT ![t].pc = "chunked",
                                          ![t].emitted = chunks,
                                          ![t].chunks = chunks]
    /\ UNCHANGED <<document, disk, upd, del, evars, svars, rvars, cvars>>

\* step 3: every chunk's content is replaced by its preprocessed form
TaskPreprocess(t) ==
    /\ tasks[t].pc = "chunked"
    /\ \E lost \in LogOutcomes, fault \in BOOLEAN :
          IF lost THEN Raise(t, "log")
          ELSE IF fault THEN Raise(t, "preprocessing")
          ELSE tasks' = [tasks EXCEPT ![t].pc = "preprocessed",
                                      ![t].chunks = PreprocessAll(tasks[t].chunks)]
    /\ UNCHANGED <<document, disk, upd, del, evars, svars, rvars, cvars>>

\* step 4: embedding_generator.embed(chunk_texts)
TaskEmbed(t) ==
    /\ tasks[t].pc = "preprocessed"
    /\ tasks[t].chunks # <<>>
    /\ \E lost \in LogOutcomes, fault \in BOOLEAN :
          IF lost THEN Raise(t, "log")
          ELSE IF fault THEN Raise(t, "embedding")
          ELSE tasks' = [tasks EXCEPT ![t].pc = "embedded",
                                      ![t].embeddings = EmbedAll(tasks[t].chunks)]
    /\ UNCHANGED <<document, disk, upd, del, evars, svars, rvars, cvars>>

\* step 5: vector_store.add_chunks(tenant_id, chunks, embeddings)
TaskStore(t) ==
    /\ tasks[t].pc = "embedded"
    /\ \E lost \in LogOutcomes, fault \in BOOLEAN :
          IF lost \/ fault
          THEN /\ Raise(t, IF lost THEN "log" ELSE "storing")
               /\ UNCHANGED store
          ELSE /\ store' = StoreAdd(store, IngestTenant, tasks[t].chunks, tasks[t].embeddings)
               /\ tasks' = [tasks EXCEPT ![t].pc = "stored",
                                         ![t].stored = StoredCount(store', tasks[t].chunks)]
    /\ UNCHANGED <<sops, slast, document, disk, upd, del, evars, rvars, cvars>>

\* document.status = COMPLETED and the commit, after storing or for a
\* document without chunks; the commit fails when the row is gone
TaskComplete(t) ==
    /\ \/ tasks[t].pc = "stored"
       \/ tasks[t].pc = "preprocessed" /\ tasks[t].chunks = <<>>
    /\ \E lost \in LogOutcomes :
          IF lost \/ ~document.exists
          THEN /\ Raise(t, IF lost THEN "log" ELSE "StaleData")
               /\ UNCHANGED document
          ELSE /\ document' = [document EXCEPT
                                  !.status = "COMPLETED",
                                  !.chunk_count = Committed(tasks[t].chunk_count,
                                                            Len(tasks[t].chunks), @)]
               /\ tasks' = [tasks EXCEPT ![t].pc = "done"]
    /\ UNCHANGED <<disk, upd, del, evars, svars, rvars, cvars>>

\* a variant of the handler's update that records no message
FailedRowSilent(row, loaded, e) == [row EXCEPT !.status = "FAILED"]

\* document.status = FAILED; document.error_message = str(e); commit
FailedRow(row, loaded, e) ==
    [row EXCEPT !.status = "FAILED", !.error_message = Committed(loaded, e, @)]

\* except Exception: the row, if it is still there, gets FAILED and str(e)
TaskFail(t) ==
    /\ tasks[t].pc = "raised"
    /\ document' = (IF document.exists
                    THEN FailedRow(document, tasks[t].error_message, tasks[t].error)
                    ELSE document)
    /\ tasks' = [tasks EXCEPT ![t].pc = "done"]
    /\ UNCHANGED <<disk, upd, del, evars, svars, rvars, cvars>>

(***************************************************************************)
(* update_document up to its commit: the row is loaded, the document's     *)
(* vectors are deleted, the old file is removed and the new one saved.  An *)
(* exception of delete_by_document ends the request.                       *)
(***************************************************************************)
UpdateReplace ==
    /\ upd.pc = "idle"
    /\ IF ~document.exists
       THEN /\ upd' = [upd EXCEPT !.pc = "done", !.outcome = 404]
            /\ UNCHANGED <<store, disk>>
       ELSE \E fault \in BOOLEAN :
               IF fault
               THEN /\ upd' = [upd EXCEPT !.pc = "done", !.outcome = 500]
                    /\ UNCHANGED <<store, disk>>
               ELSE \E text \in RawTexts :
                       /\ store' = StoreDelete(store, IngestTenant, IngestDocument, 0)
                       /\ disk' = [p \in Paths |->
                                     IF p = 2 THEN [exists |-> TRUE, text |-> text]
                                     ELSE IF p = document.file_path THEN NoFile
                                     ELSE disk[p]]
                       /\ upd' = [upd EXCEPT !.pc = "replaced",
                                             !.status = document.status,
                                             !.chunk_count = document.chunk_count,
                                             !.error_message = document.error_message,
                                             !.version = document.version,
                                             !.path = 2]
    /\ UNCHANGED <<sops, slast, document, tasks, del, evars, rvars, cvars>>

(***************************************************************************)
(* The commit of update_document and what follows it: the row gets the new *)
(* file, version + 1, PENDING, no error message and no chunks, and the     *)
(* background task is added.                                               *)
(***************************************************************************)
UpdateCommit ==
    /\ upd.pc = "replaced"
    /\ IF ~document.exists
       THEN /\ upd' = [upd EXCEPT !.pc = "done", !.outcome = 500]
            /\ UNCHANGED <<document, tasks>>
       ELSE /\ document' = [document EXCEPT
                               !.version = upd.version + 1,
                               !.status = Committed(upd.status, "PENDING", @),
                               !.error_message = Committed(upd.error_message, "none", @),
                               !.chunk_count = Committed(upd.chunk_count, 0, @),
                               !.file_path = upd.path]
            /\ tasks' = [tasks EXCEPT ![2] = [NoTask EXCEPT !.pc = "queued",
                                                            !.version = upd.version + 1,
                                                            !.path = upd.path]]
            /\ upd' = [upd EXCEPT !.pc = "done", !.outcome = 200]
    /\ UNCHANGED <<disk, del, evars, svars, rvars, cvars>>

(***************************************************************************)
(* delete_document up to its commit: the row is loaded, the vectors are    *)
(* deleted (an exception of delete_by_document is logged and the request   *)
(* goes on) and the file is removed.                                       *)
(***************************************************************************)
DeleteVectors ==
    /\ del.pc = "idle"
    /\ IF ~document.exists
       THEN /\ del' = [del EXCEPT !.pc = "done", !.outcome = 404]
            /\ UNCHANGED <<store, disk>>
       ELSE /\ \E fault \in BOOLEAN :
                  store' = (IF fault THEN store
                            ELSE StoreDelete(store, IngestTenant, IngestDocument, 0))
            /\ disk' = [disk EXCEPT ![document.file_path] = NoFile]
            /\ del' = [del EXCEPT !.pc = "removing"]
    /\ UNCHANGED <<sops, slast, document, tasks, upd, evars, rvars, cvars>>

\* db.delete(document) and the commit: the row is gone, the answer is 204
DeleteCommit ==
    /\ del.pc = "removing"
    /\ document' = NoDocument
    /\ del' = [del EXCEPT !.pc = "done", !.outcome = 204]
    /\ UNCHANGED <<disk, tasks, upd, evars, svars, rvars, cvars>>

\* one step of background task t
TaskStep(t) ==
    \/ TaskBegin(t)
    \/ TaskExtract(t)
    \/ TaskChunk(t)
    \/ TaskPreprocess(t)
    \/ TaskEmbed(t)
    \/ TaskStore(t)
    \/ TaskComplete(t)
    \/ TaskFail(t)

-----------------------------------------------------------------------------
(* Specifications *)

ExpandIdle ==
    /\ epc = "idle"
    /\ equery = <<>>
    /\ llmOut = NoOut
    /\ llmCalls = 0
    /\ eresult = <<>>

StoreIdle == store = EmptyStore /\ sops = 0 /\ slast = NoOp

RetrieveIdle == rpc = "idle" /\ rcall = NoCall /\ rfirst = NoCall

ExpandInit ==
    /\ hashSeed \in 0..(NumSeeds - 1)
    /\ expansion_count \in 1..MaxExpansionCount
    /\ ExpandIdle
    /\ StoreIdle
    /\ RetrieveIdle
    /\ ChunkIdle
    /\ Constructed([chunk_size |-> 0, chunk_overlap |-> 0])
    /\ IngestIdle

ExpandNext ==
    \/ \E q \in QuerySet : ExpandCall(q)
    \/ LlmGenerate
    \/ ExpandReturn
    \/ ExpandDone

\* generate_variations called again and again with any query and any reply
SpecExpand == ExpandInit /\ [][ExpandNext]_vars

ChunkLists(document_id, document_version) ==
    {[i \in 1..Len(cs) |-> MkChunk(document_id, document_version, i - 1, cs[i])] :
        cs \in SeqsUpTo(ContentSet, MaxChunks) \ {<<>>}}

\* the embedding handed to add_chunks for a chunk; ingestion embeds the content
ChunkEmbedding(chunk) == IF chunk.content = <<"a", "b", "c">> THEN 0 ELSE 2

StoreInit ==
    /\ hashSeed = 0
    /\ expansion_count = 1
    /\ ExpandIdle
    /\ StoreIdle
    /\ RetrieveIdle
    /\ ChunkIdle
    /\ Constructed([chunk_size |-> 0, chunk_overlap |-> 0])
    /\ IngestIdle

StoreNext ==
    \/ \E t \in TenantIds, d \in DocIds, v \in 1..MaxVersion :
         \E cs \in ChunkLists(d, v) :
            AddChunks(t, cs, [i \in 1..Len(cs) |-> ChunkEmbedding(cs[i])])
    \/ \E t \in TenantIds, d \in DocIds, v \in 0..MaxVersion : DeleteByDocument(t, d, v)
    \/ \E t \in TenantIds, e \in EmbPoints, k \in 1..MaxTopK : Query(t, e, k)

\* tenants adding, deleting and querying chunks in any order
SpecStore == StoreInit /\ [][StoreNext]_vars

RetrieveInit ==
    /\ hashSeed \in 0..(NumSeeds - 1)
    /\ expansion_count \in 1..MaxExpansionCount
    /\ ExpandIdle
    /\ store \in IndexChoices
    /\ sops = 0
    /\ slast = NoOp
    /\ RetrieveIdle
    /\ ChunkIdle
    /\ Constructed([chunk_size |-> 0, chunk_overlap |-> 0])
    /\ IngestIdle

Next ==
    \/ Retrieve
    \/ RetrieveDone

\* retrieve called again and again against an ingested index
Spec == RetrieveInit /\ [][Next]_vars

RepeatNext ==
    \/ RetrieveFirst
    \/ Restart
    \/ RetrieveAgain

\* one retrieve call made twice, the process possibly restarted in between
SpecRepeat == RetrieveInit /\ [][RepeatNext]_vars

ChunkInit ==
    /\ hashSeed = 0
    /\ expansion_count = 1
    /\ ExpandIdle
    /\ StoreIdle
    /\ RetrieveIdle
    /\ ChunkIdle
    /\ \E config \in ChunkConfigs : Constructed(config)
    /\ IngestIdle

ChunkNext ==
    \/ \E text \in StrTexts \cup NonStrTexts : ChunkCall(text)
    \/ ChunkLoop
    \/ ChunkFinish
    \/ ChunkDone

\* chunk called again and again on a chunker of any configuration
SpecChunk == ChunkInit /\ [][ChunkNext]_vars

\* the same, a call under way running on: the loop and the return are
\* straight-line code of one call that nothing else in the process holds up
SpecChunkLive == SpecChunk /\ WF_vars(ChunkLoop) /\ WF_vars(ChunkFinish)

\* upload_document has returned: the row is PENDING at version 1, the file is
\* saved and the background task added
IngestInit ==
    /\ hashSeed = 0
    /\ expansion_count = 1
    /\ ExpandIdle
    /\ StoreIdle
    /\ RetrieveIdle
    /\ ChunkIdle
    /\ \E config \in IngestConfigs : Constructed(config)
    /\ document = [NoDocument EXCEPT !.exists = TRUE, !.version = 1, !.status = "PENDING",
                                     !.file_path = 1]
    /\ \E text \in RawTexts :
          disk = [p \in Paths |-> IF p = 1 THEN [exists |-> TRUE, text |-> text] ELSE NoFile]
    /\ tasks = [t \in TaskIds |->
                  IF t = 1 THEN [NoTask EXCEPT !.pc = "queued", !.version = 1, !.path = 1]
                  ELSE NoTask]
    /\ upd = NoRequest
    /\ del = NoRequest

IngestNext ==
    \/ \E t \in TaskIds : TaskStep(t)
    \/ UpdateReplace
    \/ UpdateCommit
    \/ DeleteVectors
    \/ DeleteCommit

\* an uploaded document being processed, updated and deleted in any interleaving
SpecIngest == IngestInit /\ [][IngestNext]_vars

\* the same, every background task running on: the event loop resumes a task
\* whose awaited database call has completed
SpecIngestLive == SpecIngest /\ \A t \in TaskIds : WF_vars(TaskStep(t))

-----------------------------------------------------------------------------
(* Claims about Retriever.retrieve, checked under Spec *)

\* a retrieve call has returned a list to its caller
Returned == rpc = "done" /\ rcall.outcome = "returned"

Scores(list) == {list[i].relevance_score : i \in 1..Len(list)}

\* C1 as stated: for every retrieve call the returned sequence has length
\* <= top_k and every returned result has relevance_score >=
\* relevance_threshold.
C1_AtMostTopKAboveThreshold ==
    Returned
        => /\ Len(rcall.result) <= rcall.args.top_k
           /\ \A x \in Scores(rcall.result) : RatLeq(rcall.args.relevance_threshold, x)

\* C1 amended: the returned sequence has length <= k, where k is top_k when
\* top_k is at least 1 and the retriever's configured top_k when top_k is 0 or
\* omitted, and every returned result has relevance_score >=
\* relevance_threshold.
C1_AtMostEffectiveKAboveThreshold ==
    Returned
        => /\ Len(rcall.result) <=
                 (IF rcall.args.top_k >= 1 THEN rcall.args.top_k ELSE DefaultTopK)
           /\ \A x \in Scores(rcall.result) : RatLeq(rcall.args.relevance_threshold, x)

\* the cut to top_k dropped a result that passed the threshold, and the
\* threshold dropped a result of the pool
C1_Witness ==
    /\ Returned
    /\ rcall.args.top_k >= 1
    /\ Len(rcall.result) = rcall.args.top_k
    /\ Cardinality({i \in 1..Len(rcall.pool) :
           RatLeq(rcall.args.relevance_threshold, rcall.pool[i].relevance_score)})
         > rcall.args.top_k
    /\ \E x \in Scores(rcall.pool) : RatLess(x, rcall.args.relevance_threshold)

SameKey(a, b) ==
    /\ a.document_id = b.document_id
    /\ a.document_version = b.document_version
    /\ a.chunk_index = b.chunk_index

OneEntryPerKey(list) ==
    \A i, j \in 1..Len(list) : SameKey(list[i], list[j]) => i = j

\* every entry of list carries the highest score its chunk got in hits
CarriesHighest(list, hits) ==
    \A i \in 1..Len(list) :
        /\ \A h \in Elems(hits) :
              SameKey(h, list[i]) => RatLeq(h.relevance_score, list[i].relevance_score)
        /\ \E h \in Elems(hits) :
              SameKey(h, list[i]) /\ h.relevance_score = list[i].relevance_score

\* C2: when several phrasings return the same chunk key (document_id,
\* document_version, chunk_index) with different scores, the merged pool and
\* the final result hold at most one entry for that key, and the entry carries
\* the highest of the scores.
C2_DedupeKeepsHighest ==
    Returned
        => /\ OneEntryPerKey(rcall.pool)
           /\ CarriesHighest(rcall.pool, rcall.hits)
           /\ OneEntryPerKey(rcall.result)
           /\ CarriesHighest(rcall.result, rcall.hits)

\* two phrasings scored one chunk differently, the lower score first, and the
\* chunk is in the result
C2_Witness ==
    /\ Returned
    /\ \E i, j \in 1..Len(rcall.hits) :
          /\ i < j
          /\ SameKey(rcall.hits[i], rcall.hits[j])
          /\ RatLess(rcall.hits[i].relevance_score, rcall.hits[j].relevance_score)
          /\ \E r \in Elems(rcall.result) :
                SameKey(r, rcall.hits[j]) /\ r.relevance_score = rcall.hits[j].relevance_score

\* C5: if embed_query or the vector-index query fails for any phrasing, the
\* call ends with that error: it returns no list, empty or partial.
C5_FailureIsRaised ==
    (rpc = "done" /\ rcall.failed # "none")
        => /\ rcall.outcome = "raised"
           /\ rcall.outcome # "returned"

\* the index query failed at a later phrasing, after an earlier one had hits
C5_Witness ==
    /\ rpc = "done"
    /\ rcall.failed = "query"
    /\ rcall.failed_at >= 2
    /\ store[CollectionName(rcall.args.tenant_id)] # {}
    /\ rcall.outcome = "raised"

\* no phrasing got a candidate from the index
NoCandidates == rcall.hits = <<>>

\* no candidate reaches the relevance threshold
NoneAboveThreshold ==
    \A x \in Scores(rcall.pool) : RatLess(x, rcall.args.relevance_threshold)

\* C6: when the index returns no candidate for every phrasing, or no candidate
\* reaches the relevance threshold, retrieve returns the empty sequence as a
\* normal value and raises no error.
C6_NothingRelevantIsEmptySuccess ==
    (rpc = "done" /\ rcall.failed = "none" /\ (NoCandidates \/ NoneAboveThreshold))
        => /\ rcall.outcome = "returned"
           /\ rcall.result = <<>>

\* the index returned candidates, none of them reaches the threshold
C6_Witness ==
    /\ Returned
    /\ rcall.hits # <<>>
    /\ NoneAboveThreshold
    /\ rcall.result = <<>>

\* C11: the set of phrasings one retrieve call embeds and searches has at most
\* expansion_count + 1 members: the original query and at most
\* expansion_count generated variants.
C11_PhrasingsAtMostCountPlusOne ==
    Returned => Cardinality(Elems(rcall.queries)) <= expansion_count + 1

\* the entries of the collection the call searched
Searched == store[CollectionName(rcall.args.tenant_id)]

\* the similarity _parse_results gives an entry for a phrasing
VectorScore(entry, q) == Rat(2 - Abs(entry.emb - EmbedQuery(q)), 2)

\* C18: in hybrid mode, when a phrasing's candidate set has one or zero
\* documents, retrieve falls back to the plain vector-search result for that
\* phrasing, the scores being the unmodified vector similarities, and raises
\* no error.
C18_HybridFallsBackToVector ==
    (rpc = "done" /\ rcall.failed = "none" /\ rcall.args.use_hybrid
        /\ Cardinality(Searched) <= 1)
        => /\ rcall.outcome = "returned"
           /\ Len(rcall.hits) = Cardinality(Searched) * Len(rcall.queries)
           /\ \A e \in Searched : \A i \in 1..Len(rcall.hits) :
                 rcall.hits[i].relevance_score = VectorScore(e, rcall.queries[i])

\* the same call with use_hybrid off
VectorOnly ==
    RetrieveCall(store,
                 [rcall.args EXCEPT !.use_hybrid = FALSE, !.hybrid_alpha = DefaultAlpha],
                 rcall.llm, rcall.queries, NoFailure)

\* the number of tokens of phrasing q that the text holds
LexicalScore(q, content) ==
    LET tq == Split(Lower(q))
        td == Elems(Split(Lower(content)))
    IN  Cardinality({j \in 1..Len(tq) : tq[j] \in td})

\* the candidates of phrasing q in hybrid mode: the 2k nearest entries
Candidates(q) ==
    Elems(VectorQuery(store, rcall.args.tenant_id, EmbedQuery(q), 2 * EffectiveK(rcall.args.top_k)))

\* the lexical score of a text for q, divided by the best one of q's candidates
NormalizedLexical(q, content) ==
    LET best == CHOOSE m \in {LexicalScore(q, c.entry.content) : c \in Candidates(q)} :
                    \A c \in Candidates(q) : LexicalScore(q, c.entry.content) <= m
    IN  Rat(LexicalScore(q, content), IF best > 0 THEN best ELSE 1)

\* the hits phrasing number i contributed
PhrasingHits(i) ==
    SearchPhrasing(store, rcall.args.tenant_id, rcall.queries[i], EffectiveK(rcall.args.top_k),
                   rcall.args.use_hybrid, rcall.args.hybrid_alpha, "none").hits

\* list holds the k best of q's candidates by normalized lexical score, best first
RankedLexically(list, q, k) ==
    /\ Len(list) = (IF Cardinality(Candidates(q)) < k THEN Cardinality(Candidates(q)) ELSE k)
    /\ \A j \in 1..Len(list) :
          /\ list[j].relevance_score = NormalizedLexical(q, list[j].content)
          /\ \E c \in Candidates(q) : SameKey(c.entry, list[j])
          /\ j > 1 => RatLeq(list[j].relevance_score, list[j - 1].relevance_score)
          /\ \A c \in Candidates(q) :
                (\A m \in 1..Len(list) : ~SameKey(c.entry, list[m]))
                    => RatLeq(NormalizedLexical(q, c.entry.content), list[j].relevance_score)

\* C19: with use_hybrid on and hybrid_alpha = 1.0 retrieve returns the ranking
\* of pure-vector retrieval on the same index with the same top_k; with
\* hybrid_alpha = 0.0 each phrasing's candidates are ranked purely by their
\* max-normalized lexical score.
C19_HybridExtremes ==
    (Returned /\ rcall.args.use_hybrid)
        => /\ rcall.args.hybrid_alpha = Rat(1, 1) => rcall.result = VectorOnly.result
           /\ rcall.args.hybrid_alpha = Rat(0, 1) =>
                 \A i \in 1..Len(rcall.queries) :
                    RankedLexically(PhrasingHits(i), rcall.queries[i],
                                    EffectiveK(rcall.args.top_k))

\* hybrid_alpha = 1.0 kept the vector order although the lexical scores of the
\* two best results order them the other way round
C19_Witness ==
    /\ Returned
    /\ rcall.args.use_hybrid
    /\ rcall.args.hybrid_alpha = Rat(1, 1)
    /\ Len(rcall.result) >= 2
    /\ RatLess(rcall.result[2].relevance_score, rcall.result[1].relevance_score)
    /\ \E i \in 1..Len(rcall.queries) :
          LexicalScore(rcall.queries[i], rcall.result[1].content)
              < LexicalScore(rcall.queries[i], rcall.result[2].content)

\* the hits the search of phrasing q contributed to the call
HitsOf(q) ==
    SearchPhrasing(store, rcall.args.tenant_id, q, EffectiveK(rcall.args.top_k),
                   rcall.args.use_hybrid, rcall.args.hybrid_alpha, "none").hits

\* the phrasings whose search returned the chunk of pool entry p with the
\* score the pool kept
TiedPhrasings(p) ==
    {q \in Elems(rcall.queries) :
        \E h \in Elems(HitsOf(q)) : SameKey(h, p) /\ h.relevance_score = p.relevance_score}

RECURSIVE CleanAll(_)
CleanAll(list) ==
    IF list = <<>> THEN <<>> ELSE <<CleanVariation(Head(list))>> \o CleanAll(Tail(list))

RECURSIVE LowerAll(_)
LowerAll(list) ==
    IF list = <<>> THEN <<>> ELSE <<Lower(Head(list))>> \o LowerAll(Tail(list))

\* the phrasings in the order they came to be: the query itself, then the
\* variants in the order the reply of the language model lists them
InsertionOrder ==
    LET query == rcall.args.query
    IN  <<Lower(query)>> \o
        LowerAll(IF IsTrivial(query) THEN TrivialResult(query)
                 ELSE IF rcall.llm.kind = "text"
                      THEN <<Normalize(query)>> \o CleanAll(FindAll(rcall.llm.content))
                      ELSE <<query>>)

\* the member of S that comes first in list
FirstOf(list, S) ==
    list[CHOOSE i \in 1..Len(list) :
            /\ list[i] \in S
            /\ \A j \in 1..(i - 1) : list[j] \notin S]

\* C26: when the same chunk key comes from several phrasings with exactly
\* equal scores, the occurrence retained is the first seen, first-seen
\* following the insertion order of the phrasings: the original query first,
\* then the variants in the order they were generated.
C26_FirstSeenFollowsInsertionOrder ==
    (Returned /\ rcall.failed = "none")
        => \A i \in 1..Len(rcall.pool) :
              Cardinality(TiedPhrasings(rcall.pool[i])) >= 2
                 => FirstOf(rcall.queries, TiedPhrasings(rcall.pool[i]))
                       = FirstOf(InsertionOrder, TiedPhrasings(rcall.pool[i]))

\* the orders in which n result lists can arrive
ArrivalOrders(n) ==
    {f \in [1..n -> 1..n] : \A i, j \in 1..n : f[i] = f[j] => i = j}

RECURSIVE HitsInOrder(_, _)
\* all_vector_results when the phrasings' lists arrive in the order f, from
\* the i-th on
HitsInOrder(f, i) ==
    IF i > Len(rcall.queries) THEN <<>>
    ELSE HitsOf(rcall.queries[f[i]]) \o HitsInOrder(f, i + 1)

\* the chunk keys of list, each with its score
KeyedScores(list) ==
    {<<ChunkKey(list[i]), list[i].relevance_score>> : i \in 1..Len(list)}

\* C27: the merge step is commutative: for every permutation of the
\* per-phrasing result lists the deduplicated pool holds the same set of
\* chunk keys, each with the same score, the highest of all its occurrences.
C27_MergeIsCommutative ==
    (Returned /\ rcall.failed = "none")
        => \A f \in ArrivalOrders(Len(rcall.queries)) :
              LET merged == Dedupe(HitsInOrder(f, 1), <<>>)
              IN  /\ KeyedScores(merged) = KeyedScores(rcall.pool)
                  /\ OneEntryPerKey(merged)
                  /\ CarriesHighest(merged, rcall.hits)

\* two phrasings returned the same two chunks, each ranking another one first
\* and scoring one of them differently: the order of arrival decides the order
\* of the merged list and which occurrence is replaced
C27_Witness ==
    /\ Returned
    /\ rcall.failed = "none"
    /\ Len(rcall.queries) >= 2
    /\ \E i, j \in 1..Len(rcall.hits) :
          /\ SameKey(rcall.hits[i], rcall.hits[j])
          /\ rcall.hits[i].relevance_score # rcall.hits[j].relevance_score
    /\ \E f \in ArrivalOrders(Len(rcall.queries)) :
          Dedupe(HitsInOrder(f, 1), <<>>) # Dedupe(rcall.hits, <<>>)

\* the pool entries that meet the threshold
Eligible == {i \in 1..Len(rcall.pool) :
                RatLeq(rcall.args.relevance_threshold, rcall.pool[i].relevance_score)}

\* result holds the limit best entries of the pool that meet the threshold,
\* best first
BestOfPool(result, limit) ==
    /\ Len(result) = (IF Cardinality(Eligible) < limit THEN Cardinality(Eligible) ELSE limit)
    /\ \A j \in 1..Len(result) :
          /\ \E i \in Eligible : rcall.pool[i] = result[j]
          /\ j > 1 => RatLeq(result[j].relevance_score, result[j - 1].relevance_score)
          /\ \A i \in Eligible :
                (\A m \in 1..Len(result) : ~SameKey(rcall.pool[i], result[m]))
                    => RatLeq(rcall.pool[i].relevance_score, result[j].relevance_score)
    /\ \A j, m \in 1..Len(result) : SameKey(result[j], result[m]) => j = m

\* C28 as stated: the result is the first top_k entries of the deduplicated
\* pool sorted by descending score after the entries strictly below the
\* threshold are dropped: it is in non-increasing score order, an entry whose
\* score equals the threshold is kept, and no omitted entry that meets the
\* threshold has a higher score than an included one.
C28_ResultIsTopKOfPool ==
    (Returned /\ rcall.failed = "none") => BestOfPool(rcall.result, rcall.args.top_k)

\* C28 amended: the same with k = top_k when top_k is at least 1 and the
\* retriever's configured top_k when top_k is 0 or omitted.
C28_ResultIsEffectiveKOfPool ==
    (Returned /\ rcall.failed = "none")
        => BestOfPool(rcall.result, EffectiveK(rcall.args.top_k))

\* the result ends with an entry whose score equals the threshold, a pool
\* entry below the threshold was dropped and one that meets it was cut off
C28_Witness ==
    /\ Returned
    /\ rcall.failed = "none"
    /\ rcall.args.top_k >= 1
    /\ Len(rcall.result) = rcall.args.top_k
    /\ rcall.result[Len(rcall.result)].relevance_score = rcall.args.relevance_threshold
    /\ Cardinality(Eligible) > rcall.args.top_k

(* Claims about TextChunker.chunk, checked under SpecChunk *)

\* a chunk call on a str has returned its list
ChunkReturned == cpc = "returned" /\ ctext.type = "str"

\* the sentences of the input text, in order, paragraph markers left out
InputSentences(text) ==
    LET NotMarker(x) == x # <<>> IN SelectSeq(AllSentences(text), NotMarker)

\* the sentences of a chunk that were not carried over from the chunk before
OwnSentences(chunk) == SubSeq(chunk.sents, chunk.overlap + 1, Len(chunk.sents))

\* the sentences a chunk carried over from the chunk before
CarriedSentences(chunk) == SubSeq(chunk.sents, 1, chunk.overlap)

RECURSIVE ConcatOwn(_)
ConcatOwn(list) ==
    IF list = <<>> THEN <<>> ELSE OwnSentences(Head(list)) \o ConcatOwn(Tail(list))

IsSuffix(t, u) == Len(t) <= Len(u) /\ t = SubSeq(u, Len(u) - Len(t) + 1, Len(u))

\* C12: the chunks' sentences in chunk order, the carried-over ones removed,
\* are the input's sentences: each once, whole, in the original order, no
\* paragraph marker among them.  Empty or whitespace-only text gives no chunk
\* and no error, any other text gives at least one chunk.
C12_ChunksCoverSentences ==
    (cpc \in {"returned", "raised"} /\ ctext.type = "str")
        => /\ cpc = "returned"
           /\ cerror = "none"
           /\ ConcatOwn(chunk_list) = InputSentences(ctext.value)
           /\ \A i \in 1..Len(chunk_list) :
                 /\ chunk_list[i].content = JoinSpace(chunk_list[i].sents)
                 /\ \A j \in 1..Len(chunk_list[i].sents) : chunk_list[i].sents[j] # <<>>
                 /\ i = 1 => chunk_list[i].overlap = 0
                 /\ i > 1 => IsSuffix(CarriedSentences(chunk_list[i]), chunk_list[i - 1].sents)
           /\ Strip(ctext.value) = <<>> => chunk_list = <<>>
           /\ Strip(ctext.value) # <<>> => chunk_list # <<>>

\* a text of two paragraphs came back as several chunks, one of them starting
\* with a carried-over sentence
C12_Witness ==
    /\ ChunkReturned
    /\ Len(chunk_list) >= 2
    /\ \E i \in 1..Len(sentences) : sentences[i] = <<>>
    /\ \E i \in 2..Len(chunk_list) : chunk_list[i].overlap >= 1

\* C13 as stated: for every chunk but the first, the token count of the
\* sentences carried over from the previous chunk is <= the overlap the
\* chunker was configured with.
C13_CarriedWithinConfiguredOverlap ==
    \A i \in 2..Len(chunk_list) :
        TokenSum(CarriedSentences(chunk_list[i])) <= cconfig.chunk_overlap

\* C13 amended: for every chunk but the first, the token count of the
\* carried-over sentences is <= the chunker's effective overlap: the
\* configured chunk_overlap when it is at least 1, settings.chunk_overlap
\* when it is 0 or omitted.
C13_CarriedWithinEffectiveOverlap ==
    \A i \in 2..Len(chunk_list) :
        TokenSum(CarriedSentences(chunk_list[i])) <=
            (IF cconfig.chunk_overlap >= 1 THEN cconfig.chunk_overlap ELSE DefaultChunkOverlap)

\* a chunk carried over exactly the configured overlap and left an earlier
\* sentence of the previous chunk behind
C13_Witness ==
    /\ ChunkReturned
    /\ cconfig.chunk_overlap >= 1
    /\ \E i \in 2..Len(chunk_list) :
          /\ chunk_list[i].overlap >= 1
          /\ TokenSum(CarriedSentences(chunk_list[i])) = cconfig.chunk_overlap
          /\ chunk_list[i].overlap < Len(chunk_list[i - 1].sents)

\* C14: every emitted chunk whose token_count exceeds chunk_size consists of
\* exactly one sentence; every other chunk has token_count <= chunk_size.
C14_OversizeOnlySingleSentence ==
    \A i \in 1..Len(chunk_list) :
        chunk_list[i].token_count > chunk_size => Len(chunk_list[i].sents) = 1

\* the scenario: chunk_size 10, overlap 3, four 6-word sentences, blank line
\* after the second
ScenarioReturned ==
    /\ ChunkReturned
    /\ cconfig = [chunk_size |-> 10, chunk_overlap |-> 3]
    /\ ctext.value = FourSentenceText

\* C15 as stated: the scenario gives exactly 2 chunks, the second beginning
\* with a tail of chunk 1 of at most 3 tokens.
C15_ScenarioTwoChunks ==
    ScenarioReturned
        => /\ Len(chunk_list) = 2
           /\ IsSuffix(CarriedSentences(chunk_list[2]), chunk_list[1].sents)
           /\ TokenSum(CarriedSentences(chunk_list[2])) <= 3

\* C15 amended: the scenario gives exactly 4 chunks, one 6-token sentence
\* each, and no chunk begins with sentences carried over from the chunk
\* before.
C15_ScenarioFourChunks ==
    ScenarioReturned
        => /\ Len(chunk_list) = 4
           /\ \A i \in 1..Len(chunk_list) :
                 /\ Len(chunk_list[i].sents) = 1
                 /\ chunk_list[i].token_count = 6
                 /\ chunk_list[i].overlap = 0

C15_Witness == ScenarioReturned /\ Len(chunk_list) = 4

\* C16: the chunk_index values of the chunks of one chunk call are 0, 1, ...,
\* n-1 in emission order, so (document_id, document_version, chunk_index) is
\* unique among them.
C16_ChunkIndexContiguous ==
    /\ \A i \in 1..Len(chunk_list) : chunk_list[i].chunk_index = i - 1
    /\ \A i, j \in 1..Len(chunk_list) :
          ( /\ chunk_list[i].document_id = chunk_list[j].document_id
            /\ chunk_list[i].document_version = chunk_list[j].document_version
            /\ chunk_list[i].chunk_index = chunk_list[j].chunk_index ) => i = j

C16_Witness ==
    /\ ChunkReturned
    /\ Len(chunk_list) >= 3
    /\ chunk_list[3].chunk_index = 2

\* C17: chunking never throws for a valid non-empty string, and every input
\* that is not a string is reported as an InvalidInputError, not as an empty
\* result and not as another exception type.
C17_NonStringIsInvalidInput ==
    /\ (cpc \in {"returned", "raised"} /\ ctext.type = "str") => cpc = "returned"
    /\ (cpc \in {"returned", "raised"} /\ ctext.type # "str")
          => (cpc = "raised" /\ cerror = "InvalidInputError")

\* the overlap the chunker works with: chunk_overlap or settings.chunk_overlap
EffectiveOverlap ==
    IF cconfig.chunk_overlap >= 1 THEN cconfig.chunk_overlap ELSE DefaultChunkOverlap

\* the size the chunker works with: chunk_size or settings.chunk_size
EffectiveSize ==
    IF cconfig.chunk_size >= 1 THEN cconfig.chunk_size ELSE DefaultChunkSize

\* every pass of the assembly loop moves on by one element of the sentence
\* sequence, and what it carries into a new chunk is no more than the
\* sentences of the chunk it closed
LoopConsumesOne ==
    [][(cpc = "loop" /\ cpc' = "loop")
          => /\ sentence_idx' = sentence_idx + 1
             /\ sentence_idx' <= Len(sentences)
             /\ sentences' = sentences
             /\ carried' <= Len(current_chunk_sentences')
             /\ Len(chunk_list') > Len(chunk_list)
                   => carried' <= Len(chunk_list'[Len(chunk_list')].sents)]_vars

\* C25: chunk() terminates for every input text and every chunk_size/overlap
\* configuration, overlap >= chunk_size included: every pass of the assembly
\* loop consumes exactly one element of the sentence sequence, the carried
\* overlap never holds more than the sentences of the chunk just closed, and
\* a call that entered the loop returns.
C25_ChunkTerminates ==
    /\ LoopConsumesOne
    /\ (cpc = "loop") ~> (cpc = "returned")

\* a call on a chunker whose overlap is at least its chunk size returned
\* several chunks, one of them starting with carried-over sentences
C25_Witness ==
    /\ ChunkReturned
    /\ EffectiveOverlap >= EffectiveSize
    /\ Len(chunk_list) >= 3
    /\ \E i \in 2..Len(chunk_list) : chunk_list[i].overlap >= 1

\* the last n elements of list
Suffix(list, n) == SubSeq(list, Len(list) - n + 1, Len(list))

\* the chunk's carried sentences are the longest suffix of the sentences of
\* prev that has at most limit tokens
CarriesLongestSuffix(chunk, prev, limit) ==
    /\ chunk.overlap <= Len(prev.sents)
    /\ CarriedSentences(chunk) = Suffix(prev.sents, chunk.overlap)
    /\ \A n \in 0..Len(prev.sents) :
          TokenSum(Suffix(prev.sents, n)) <= limit => n <= chunk.overlap
    /\ TokenSum(CarriedSentences(chunk)) <= limit

\* the position in the input of the last sentence of chunk number i
EndPos(i) == Len(ConcatOwn(SubSeq(chunk_list, 1, i)))

\* chunk number i, after its carried sentences and with nothing in between,
\* goes on with the input sentence that follows the end of chunk i - 1, and
\* its token count is that of the carried sentences plus that of its own
StartsAfterPrevious(i) ==
    /\ Len(chunk_list[i].sents) > chunk_list[i].overlap
    /\ EndPos(i - 1) < Len(InputSentences(ctext.value))
    /\ chunk_list[i].sents[chunk_list[i].overlap + 1]
          = InputSentences(ctext.value)[EndPos(i - 1) + 1]
    /\ chunk_list[i].token_count
          = TokenSum(CarriedSentences(chunk_list[i])) + TokenSum(OwnSentences(chunk_list[i]))

\* C29 as stated: when a chunk is closed the next chunk starts with the
\* longest suffix of the closed chunk's sentences whose token count is <= the
\* overlap the chunker was given, in their original order and counted into
\* the running token count, followed at once by the sentence that triggered
\* the close.
C29_CarryIsLongestSuffixOfConfigured ==
    ChunkReturned =>
        \A i \in 2..Len(chunk_list) :
            /\ CarriesLongestSuffix(chunk_list[i], chunk_list[i - 1], cconfig.chunk_overlap)
            /\ StartsAfterPrevious(i)

\* C29 amended: the same with the chunker's effective overlap, which is the
\* given chunk_overlap when that is at least 1 and settings.chunk_overlap
\* when it is 0 or omitted.
C29_CarryIsLongestSuffixOfEffective ==
    ChunkReturned =>
        \A i \in 2..Len(chunk_list) :
            /\ CarriesLongestSuffix(chunk_list[i], chunk_list[i - 1], EffectiveOverlap)
            /\ StartsAfterPrevious(i)

\* a chunk of three sentences was closed and the next one carried the last
\* two of them, the first being too much for the overlap
C29_Witness ==
    /\ ChunkReturned
    /\ cconfig.chunk_overlap >= 1
    /\ \E i \in 2..Len(chunk_list) :
          /\ chunk_list[i].overlap = 2
          /\ Len(chunk_list[i - 1].sents) >= 3
          /\ chunk_list[i].sents[1] # chunk_list[i].sents[2]

\* C30: every chunk after the first ends with a sentence that comes strictly
\* later in the input than the last sentence of the chunk before it, so the
\* number of chunks never exceeds the number of sentences of the input.
C30_EveryChunkAdvances ==
    ChunkReturned =>
        /\ \A i \in 1..Len(chunk_list) :
              /\ Len(chunk_list[i].sents) >= 1
              /\ EndPos(i) >= 1
              /\ EndPos(i) <= Len(InputSentences(ctext.value))
              /\ chunk_list[i].sents[Len(chunk_list[i].sents)]
                    = InputSentences(ctext.value)[EndPos(i)]
              /\ i > 1 => EndPos(i) > EndPos(i - 1)
        /\ Len(chunk_list) <= Len(InputSentences(ctext.value))

\* every sentence of a four-sentence text closed a chunk of its own although
\* each chunk carried the chunk before it along
C30_Witness ==
    /\ ChunkReturned
    /\ Len(InputSentences(ctext.value)) >= 3
    /\ Len(chunk_list) = Len(InputSentences(ctext.value))
    /\ \A i \in 2..Len(chunk_list) : chunk_list[i].overlap >= 1

(* Claims about VectorStore, checked under SpecStore *)

\* C3: distinct tenant ids are served by distinct collections: a query for a
\* tenant returns only chunks added under that tenant, and a delete for a
\* tenant removes only chunks added under that tenant.
C3_TenantIsolation ==
    /\ slast.op = "query" =>
          \A i \in 1..Len(slast.results) : slast.results[i].entry.owner = slast.tenant
    /\ slast.op = "delete" => \A e \in slast.lost : e.owner = slast.tenant

\* the entries of the tenant's collection stored under the key of chunk
StoredUnder(tenant_id, chunk) ==
    {e \in store[CollectionName(tenant_id)] :
        e.id = ChunkId(chunk.document_id, chunk.document_version, chunk.chunk_index)}

\* C20: chunks are stored under {document_id}_v{document_version}_{chunk_index},
\* and re-ingesting a document version whose keys the tenant's collection
\* already holds supersedes the prior chunks: after add_chunks every key of the
\* call holds exactly one entry, and its content is the content just supplied.
C20_ReingestSupersedes ==
    (slast.op = "add"
        /\ \A i, j \in 1..Len(slast.chunks) :
              ChunkKey(slast.chunks[i]) = ChunkKey(slast.chunks[j]) => i = j)
        => \A i \in 1..Len(slast.chunks) :
              \E e \in StoredUnder(slast.tenant, slast.chunks[i]) :
                 /\ StoredUnder(slast.tenant, slast.chunks[i]) = {e}
                 /\ e.content = slast.chunks[i].content

(* Claims about repeated retrieve calls, checked under SpecRepeat *)

NonTrivialDone == epc = "done" /\ equery # <<>> /\ Len(Strip(equery)) >= 3

\* C7: for a non-trivial query and any text the generation collaborator
\* returns, the returned list contains the trimmed, lowercased original query,
\* also when more than expansion_count variants were parsed and the list was
\* cut to expansion_count + 1 members.
C7_OriginalAlwaysIncluded ==
    (NonTrivialDone /\ llmOut.kind = "text")
        => Normalize(equery) \in Elems(eresult)

\* C8: in the returned list the original query is the first member, ahead of
\* every generated variant.
C8_OriginalIsFirst ==
    (NonTrivialDone /\ llmOut.kind = "text")
        => (eresult # <<>> /\ eresult[1] = Normalize(equery))

\* the collaborator raised, answered without usable content, or its text held
\* no bullet line
Degraded ==
    \/ llmOut.kind \in {"raise", "malformed"}
    \/ llmOut.kind = "text" /\ FindAll(llmOut.content) = <<>>

\* C9 as stated: whenever the collaborator fails or yields zero parsed
\* variants, the call returns exactly one phrasing, the trimmed and lowercased
\* original query.
C9_FallbackIsNormalized ==
    (NonTrivialDone /\ Degraded) => eresult = <<Normalize(equery)>>

\* C9 amended: whenever the collaborator fails or yields zero parsed variants,
\* the call returns exactly one phrasing: the original query exactly as it was
\* passed in when the collaborator raised or answered without usable content,
\* and the trimmed, lowercased original when its text held no variant.
C9_FallbackIsSingleOriginal ==
    (NonTrivialDone /\ Degraded)
        => /\ Len(eresult) = 1
           /\ llmOut.kind \in {"raise", "malformed"} => eresult[1] = equery
           /\ llmOut.kind = "text" => eresult[1] = Lower(Strip(equery))

C9_Witness ==
    /\ NonTrivialDone
    /\ llmOut.kind = "raise"
    /\ equery # Normalize(equery)
    /\ eresult = <<equery>>

\* C10: for a query that is empty or shorter than 3 characters once trimmed,
\* the call returns the singleton holding the query as passed (nothing for the
\* empty query), and the language model is not invoked at any point of the call.
C10_TrivialQueryNoLlm ==
    (epc # "idle" /\ (equery = <<>> \/ Len(Strip(equery)) < 3))
        => /\ llmCalls = 0
           /\ epc = "done"
           /\ eresult = (IF equery = <<>> THEN <<>> ELSE <<equery>>)

C10_Witness ==
    /\ epc = "done"
    /\ equery = <<" ", "a", "d">>
    /\ eresult = <<equery>>
    /\ llmCalls = 0

-----------------------------------------------------------------------------
(* Claims about document ingestion, checked under SpecIngest *)

\* the tasks that have handed their chunks to add_chunks
StoringTasks == {t \in TaskIds : tasks[t].pc = "stored"}

(***************************************************************************)
(* C24: a Chunk is immutable after the Chunker creates it: on the          *)
(* ingestion path no field of a chunk is modified between chunk()          *)
(* returning and add_chunks storing it, so the content embedded and stored *)
(* is exactly the content the Chunker emitted.                             *)
(***************************************************************************)
C24_ChunksImmutableUntilStored ==
    \A t \in StoringTasks :
        /\ tasks[t].chunks = tasks[t].emitted
        /\ tasks[t].embeddings = EmbedAll(tasks[t].emitted)

\* every background task that was added has run to its end
AllTasksFinished == \A t \in TaskIds : tasks[t].pc \in {"none", "done"}

\* the document's entries in the tenant's collection
IndexedChunks == {e \in store[CollectionName(IngestTenant)] : e.document_id = IngestDocument}

(***************************************************************************)
(* C22: deleting a document removes its vectors: after delete_document has *)
(* returned successfully and every background process_document task for    *)
(* the document has finished, no chunk with that document_id remains in    *)
(* the tenant's index, whatever the interleaving with a still-running task *)
(* and also when the vector deletion call itself fails.                    *)
(***************************************************************************)
C22_DeleteRemovesVectors ==
    (del.pc = "done" /\ del.outcome = 204 /\ upd.pc = "idle" /\ AllTasksFinished)
        => IndexedChunks = {}

(***************************************************************************)
(* C21: old vectors are deleted before new ones are stored: after          *)
(* update_document has replaced the document and every background          *)
(* process_document task for it has finished, in every interleaving of the *)
(* update with an earlier still-running task, the tenant's index contains  *)
(* chunks of only the document's latest version.                           *)
(***************************************************************************)
C21_OnlyLatestVersionIndexed ==
    (upd.pc = "done" /\ upd.outcome = 200 /\ del.pc = "idle" /\ AllTasksFinished)
        => \A e \in IndexedChunks : e.document_version = document.version

-----------------------------------------------------------------------------
(* Claims about process_document, checked under SpecIngestLive *)

\* the exceptions of the five processing steps
StepErrors == {"extraction", "chunking", "preprocessing", "embedding", "storing"}

\* task t ends in this step, its document still there
Ends(t) == tasks[t].pc # "done" /\ tasks'[t].pc = "done" /\ document'.exists

\* what the row shows when task t ends
EndsSettled(t) ==
    /\ document'.status \in {"COMPLETED", "FAILED"}
    /\ document'.status = "FAILED" <=> tasks[t].error \in StepErrors
    /\ document'.status = "FAILED" => document'.error_message = tasks[t].error
    /\ document'.status = "COMPLETED" =>
          /\ tasks[t].error = "none"
          /\ tasks[t].stored = Len(tasks[t].chunks)

\* once nothing is running or about to be added, the row is settled
NeverLeftUnsettled ==
    (document.exists /\ AllTasksFinished /\ upd.pc # "replaced")
        => document.status \in {"COMPLETED", "FAILED"}

=============================================================================
